---- MODULE Spec2Model ----
(***************************************************************************)
(* Model of spotter's reconciliation engine, display_spot_data             *)
(* (src/src/display.rs; src/src/main.rs holds an identical copy), of the   *)
(* callback extraction of fetch_spot_price_data (src/src/aws.rs), of the   *)
(* region validation of the command line (src/src/cli.rs) and of main      *)
(* (src/src/main.rs).  Each is a specification of its own over the same    *)
(* variables: Spec, FetchSpec, CliSpec and MainSpec.                       *)
(*                                                                         *)
(* Strings the code inspects character by character (instance names, the   *)
(* instance-type filter, the price document's type and size labels) are    *)
(* sequences of one-character strings.  Strings the code only compares or  *)
(* prints (region names, prices, labels) are TLA+ strings.                 *)
(*                                                                         *)
(* A serde_json::Value is a record [t, v]: t is the variant and v the      *)
(* payload.  Objects and arrays are sequences in document order; an object *)
(* holds [k, val] members with distinct keys.                              *)
(***************************************************************************)
EXTENDS Integers, Sequences, FiniteSets, TLC

VARIABLES
    region,          \* argument region: &str
    instance_type,   \* argument instance_type: Option<&str>
    show_spot_price, \* argument show_spot_price: bool
    advisor_data,    \* argument advisor_data: &Value
    price_data,      \* argument price_data: &Value
    pc,              \* position inside display_spot_data
    instance_specs,  \* HashMap<String, (String, String)>
    instance_data,   \* HashMap<String, HashMap<String, InstanceInfo>>
    advisor_todo,    \* advisor entries the loop of line 116 has yet to visit
    price_todo,      \* size entries the loop of line 191 has yet to visit
    cur,             \* locals of the last price iteration (lines 216-268)
    filter_todo,     \* keys of instance_data the loop of line 312 has yet to visit
    filtered_data,   \* Vec<(String, InstanceInfo)>
    table,           \* rows added to the table, header first
    result,          \* "running", "Ok", "Err" or "panic"
    args,            \* the command line: whether --region is given, and its value
    text,            \* fetch_spot_price_data: the response body
    fetch,           \* fetch_spot_price_data: start_idx, end_idx, json_str
    error,           \* the error a Result carries
    calls            \* main: the calls begun and ended so far, in order

vars == <<region, instance_type, show_spot_price, advisor_data, price_data, pc,
          instance_specs, instance_data, advisor_todo, price_todo, cur,
          filter_todo, filtered_data, table, result, args, text, fetch, error,
          calls>>

----------------------------------------------------------------------------
(* Bounds of the checked input families.                                   *)

\* Largest interruption code r that the advisor documents carry.
MaxRate == 5

\* Longest type label, size label and filter of the label family (InitLabels).
MaxLabel == 2

\* Most value columns of a size entry of the fields family (InitFields).
MaxColumns == 2

----------------------------------------------------------------------------
(* Character strings.                                                      *)

Dot == "."

Digits == <<"0", "1", "2", "3", "4", "5", "6", "7", "8", "9">>

Upper == <<"A", "B", "C", "D", "E", "F", "G", "H", "I", "J", "K", "L", "M",
           "N", "O", "P", "Q", "R", "S", "T", "U", "V", "W", "X", "Y", "Z">>

Lower == <<"a", "b", "c", "d", "e", "f", "g", "h", "i", "j", "k", "l", "m",
           "n", "o", "p", "q", "r", "s", "t", "u", "v", "w", "x", "y", "z">>

IndexIn(seq, c) == CHOOSE i \in DOMAIN seq : seq[i] = c

\* The byte of an ASCII character, as str::cmp compares them.
Byte(c) ==
    IF c = Dot THEN 46
    ELSE IF \E i \in DOMAIN Digits : Digits[i] = c THEN 47 + IndexIn(Digits, c)
    ELSE IF \E i \in DOMAIN Upper : Upper[i] = c THEN 64 + IndexIn(Upper, c)
    ELSE 96 + IndexIn(Lower, c)

Min(a, b) == IF a <= b THEN a ELSE b

\* a.cmp(b) == Ordering::Less for strings: byte-wise lexicographic order.
StrLess(a, b) ==
    LET n == Min(Len(a), Len(b))
        diff == {i \in 1..n : a[i] # b[i]}
    IN  IF diff = {} THEN Len(a) < Len(b)
        ELSE LET d == CHOOSE i \in diff : \A j \in diff : i <= j
             IN  Byte(a[d]) < Byte(b[d])

\* str::rfind('.') on s: the largest index holding '.', 0 for None.
RFindDot(s) ==
    LET dots == {i \in 1..Len(s) : s[i] = Dot}
    IN  IF dots = {} THEN 0 ELSE CHOOSE i \in dots : \A j \in dots : j <= i

\* str::find('.') on s: the smallest index holding '.', 0 for None.
FindDot(s) ==
    LET dots == {i \in 1..Len(s) : s[i] = Dot}
    IN  IF dots = {} THEN 0 ELSE CHOOSE i \in dots : \A j \in dots : i <= j

\* str::contains: f occurs in s as a contiguous substring.
Contains(s, f) ==
    \E i \in 1..(Len(s) + 1) :
        /\ i + Len(f) - 1 <= Len(s)
        /\ SubSeq(s, i, i + Len(f) - 1) = f

\* str::split('.').collect(): the segments of s between the dots.
RECURSIVE Split(_)
Split(s) ==
    LET d == FindDot(s)
    IN  IF d = 0 THEN <<s>>
        ELSE <<SubSeq(s, 1, d - 1)>> \o Split(SubSeq(s, d + 1, Len(s)))

----------------------------------------------------------------------------
(* serde_json::Value.                                                      *)

Null == [t |-> "null", v |-> <<>>]
None == [t |-> "none", v |-> <<>>]         \* Option::None of Value::get
JInt(n) == [t |-> "int", v |-> n]        \* the number n
JHalf(n) == [t |-> "half", v |-> n]      \* the number n + 0.5
JStr(s) == [t |-> "str", v |-> s]
JArr(seq) == [t |-> "arr", v |-> seq]
JObj(members) == [t |-> "obj", v |-> members]
KV(key, value) == [k |-> key, val |-> value]

\* Value::get(key): Some(member) of an object that has the key, else None.
Get(x, key) ==
    IF x.t = "obj" /\ \E i \in DOMAIN x.v : x.v[i].k = key
    THEN x.v[CHOOSE i \in DOMAIN x.v : x.v[i].k = key].val
    ELSE None

\* x[key]: Index for &str, which yields Value::Null where get yields None.
Idx(x, key) == IF Get(x, key).t = "none" THEN Null ELSE Get(x, key)

IsObject(x) == x.t = "obj"               \* as_object().is_some()
IsArray(x) == x.t = "arr"                \* as_array().is_some()
IsStr(x) == x.t = "str"                  \* as_str().is_some()
IsU64(x) == x.t = "int" /\ x.v >= 0      \* as_u64().is_some()
IsF64(x) == x.t \in {"int", "half"}      \* as_f64().is_some()

\* A float formatting with one forced decimal, as format!("{:.1}") prints.
F64ToStringOneDecimal(x) == IF x.t = "int" THEN ToString(x.v) \o ".0" ELSE ToString(x.v) \o ".5"

\* f64::to_string of as_f64(x): 8.0 prints as "8", 8.5 as "8.5".
F64ToString(x) == IF x.t = "int" THEN ToString(x.v) ELSE ToString(x.v) \o ".5"

NA == "N/A"

----------------------------------------------------------------------------
(* display_spot_data: pure parts.                                          *)

EmptyMap == [x \in {} |-> 0]

\* The header row (lines 26-41).
Headers(show) ==
    <<"Instance Type", "Region", "Interruption Rate", "Memory (GB)", "Cores">>
    \o (IF show THEN <<"Linux Spot Price", "Windows Spot Price">> ELSE <<>>)
    \o <<"Savings">>

\* Specifications that are there only when both fields are.
SpecOfBothOrNeither(info) ==
    IF IsF64(Get(info, "ram_gb")) /\ IsU64(Get(info, "cores"))
    THEN <<F64ToString(Get(info, "ram_gb")), ToString(Get(info, "cores").v)>>
    ELSE <<NA, NA>>

\* instance_specs (lines 45-70): every member of instance_types that is an
\* object, with ram_gb through as_f64 and cores through as_u64.
SpecOf(info) ==
    << IF IsF64(Get(info, "ram_gb")) THEN F64ToString(Get(info, "ram_gb")) ELSE NA,
       IF IsU64(Get(info, "cores")) THEN ToString(Get(info, "cores").v) ELSE NA >>

BuildSpecs(adv) ==
    LET types == Get(adv, "instance_types")
    IN  IF ~IsObject(types) THEN EmptyMap
        ELSE LET objs == {i \in DOMAIN types.v : IsObject(types.v[i].val)}
             IN  [n \in {types.v[i].k : i \in objs} |->
                     SpecOf(types.v[CHOOSE i \in objs : types.v[i].k = n].val)]

PanicEvent == [kind |-> "panic", region_name |-> "", name |-> <<>>, data |-> Null]

\* Visits of the entries of the requested region alone.
LinuxEventsRequestedOnly(region_name, linux) ==
    IF ~IsObject(linux) \/ region_name # region THEN <<>>
    ELSE [i \in DOMAIN linux.v |->
            [kind |-> "entry", region_name |-> region_name,
             name |-> linux.v[i].k, data |-> linux.v[i].val]]

\* The visits of the advisor loops (lines 116-137), in document order: one per
\* member of a region's "Linux" object; a region that is no object makes
\* line 117 panic, which ends the visits.
LinuxEvents(region_name, linux) ==
    IF ~IsObject(linux) THEN <<>>
    ELSE [i \in DOMAIN linux.v |->
            [kind |-> "entry", region_name |-> region_name,
             name |-> linux.v[i].k, data |-> linux.v[i].val]]

\* Visits that take the members of "Windows" after those of "Linux".
RECURSIVE AdvisorEventsBothBranches(_)
AdvisorEventsBothBranches(members) ==
    IF members = <<>> THEN <<>>
    ELSE LET m == Head(members)
         IN  IF ~IsObject(m.val) THEN <<PanicEvent>>
             ELSE LinuxEvents(m.k, Get(m.val, "Linux"))
                  \o LinuxEvents(m.k, Get(m.val, "Windows"))
                  \o AdvisorEventsBothBranches(Tail(members))

RECURSIVE AdvisorEvents(_)
AdvisorEvents(members) ==
    IF members = <<>> THEN <<>>
    ELSE LET m == Head(members)
         IN  IF ~IsObject(m.val) THEN <<PanicEvent>>
             ELSE LinuxEvents(m.k, Get(m.val, "Linux")) \o AdvisorEvents(Tail(members))

\* A match whose catch-all arm starts one code early.
InterruptionRateThreeArms(rate_info) ==
    CASE rate_info = 0 -> "< 5%"
      [] rate_info = 1 -> "5-10%"
      [] rate_info = 2 -> "10-15%"
      [] OTHER -> "> 20%"

\* The match of lines 145-151.
InterruptionRate(rate_info) ==
    CASE rate_info = 0 -> "< 5%"
      [] rate_info = 1 -> "5-10%"
      [] rate_info = 2 -> "10-15%"
      [] rate_info = 3 -> "15-20%"
      [] OTHER -> "> 20%"

\* and_then(Value::as_u64).unwrap_or(0) (lines 141-142).
U64OrZero(x) == IF IsU64(x) THEN x.v ELSE 0

\* HashMap::insert of a region's record under an instance name.
Put(data, name, region_name, info) ==
    IF name \in DOMAIN data
    THEN [data EXCEPT ![name] =
            [r \in DOMAIN @ \cup {region_name} |-> IF r = region_name THEN info ELSE @[r]]]
    ELSE data @@ (name :> (region_name :> info))

\* A visit that produces no record unless r and s are both unsigned integers.
SeedOneRequiringFields(data, specs, e) ==
    IF ~IsObject(e.data) \/ ~IsU64(Get(e.data, "r")) \/ ~IsU64(Get(e.data, "s")) THEN data
    ELSE LET spec == IF e.name \in DOMAIN specs THEN specs[e.name] ELSE <<NA, NA>>
         IN  Put(data, e.name, e.region_name,
                 [interruption_rate |-> InterruptionRate(Get(e.data, "r").v),
                  savings |-> ToString(Get(e.data, "s").v) \o "%",
                  linux_spot_price |-> NA,
                  windows_spot_price |-> NA,
                  memory_gb |-> spec[1],
                  cores |-> spec[2]])

\* One visit of the advisor loop (lines 138-176).
SeedOne(data, specs, e) ==
    IF ~IsObject(e.data) THEN data
    ELSE LET rate_info == U64OrZero(Get(e.data, "r"))
             savings == U64OrZero(Get(e.data, "s"))
             spec == IF e.name \in DOMAIN specs THEN specs[e.name] ELSE <<NA, NA>>
         IN  Put(data, e.name, e.region_name,
                 [interruption_rate |-> InterruptionRate(rate_info),
                  savings |-> ToString(savings) \o "%",
                  linux_spot_price |-> NA,
                  windows_spot_price |-> NA,
                  memory_gb |-> spec[1],
                  cores |-> spec[2]])

RECURSIVE Flat(_)
Flat(seqs) == IF seqs = <<>> THEN <<>> ELSE Head(seqs) \o Flat(Tail(seqs))

\* The prefix of events up to and including the first panic.
CutAtPanic(events) ==
    LET panics == {i \in DOMAIN events : events[i].kind = "panic"}
    IN  IF panics = {} THEN events
        ELSE SubSeq(events, 1, CHOOSE i \in panics : \A j \in panics : i <= j)

\* The visits of the price loops (lines 191-215), in document order: one per
\* size; the unwraps of lines 192-193 and 204-205 panic on a region or a
\* category of the wrong shape.
CategoryEvents(region_name, category) ==
    IF ~IsStr(Idx(category, "type")) \/ ~IsArray(Idx(category, "sizes"))
    THEN <<PanicEvent>>
    ELSE LET sizes == Idx(category, "sizes").v
         IN  [i \in DOMAIN sizes |->
                [kind |-> "size", region_name |-> region_name,
                 name |-> Idx(category, "type").v, data |-> sizes[i]]]

RegionEvents(region_data) ==
    IF ~IsStr(Idx(region_data, "region")) \/ ~IsArray(Idx(region_data, "instanceTypes"))
    THEN <<PanicEvent>>
    ELSE LET cats == Idx(region_data, "instanceTypes").v
         IN  Flat([i \in DOMAIN cats |->
                      CategoryEvents(Idx(region_data, "region").v, cats[i])])

PriceEvents(price_regions) ==
    CutAtPanic(Flat([i \in DOMAIN price_regions |-> RegionEvents(price_regions[i])]))

\* A normalization that cuts at the first dot instead of the second-to-last.
SimpleNameAfterFirstDot(full_name) ==
    IF Cardinality({i \in 1..Len(full_name) : full_name[i] = Dot}) >= 2
    THEN SubSeq(full_name, FindDot(full_name) + 1, Len(full_name))
    ELSE full_name

\* simple_name (lines 220-228).
SimpleName(full_name) ==
    LET last_dot_index == RFindDot(full_name)
    IN  IF last_dot_index # 0
        THEN LET second_last_dot_index == RFindDot(SubSeq(full_name, 1, last_dot_index - 1))
             IN  IF second_last_dot_index # 0
                 THEN SubSeq(full_name, second_last_dot_index + 1, Len(full_name))
                 ELSE full_name
        ELSE full_name

\* The scan of valueColumns for one column name (lines 241-268): every
\* column of that name carrying prices.USD assigns, so the last one wins.
RECURSIVE ScanPrice(_, _, _)
ScanPrice(values, column, price) ==
    IF values = <<>> THEN price
    ELSE LET value == Head(values)
             usd == Get(Get(value, "prices"), "USD")
         IN  ScanPrice(Tail(values), column,
                 IF Idx(value, "name").v = column /\ usd.t # "none"
                 THEN (IF IsStr(usd) THEN usd.v ELSE NA)
                 ELSE price)

\* The unwraps of lines 216, 240 and 245 on one size entry.
SizePanics(size) ==
    \/ ~IsStr(Idx(size, "size"))
    \/ ~IsArray(Idx(size, "valueColumns"))
    \/ \E i \in DOMAIN Idx(size, "valueColumns").v :
            ~IsStr(Idx(Idx(size, "valueColumns").v[i], "name"))

\* The locals of one visit of the size loop (lines 216-268).
SizeLocals(e) ==
    LET full_name == e.name \o <<Dot>> \o Idx(e.data, "size").v
        values == Idx(e.data, "valueColumns").v
    IN  [region_name |-> e.region_name,
         full_name |-> full_name,
         simple_name |-> SimpleName(full_name),
         linux_spot_price |-> ScanPrice(values, "linux", NA),
         windows_spot_price |-> ScanPrice(values, "mswin", NA)]

NoLocals ==
    [region_name |-> "", full_name |-> <<>>, simple_name |-> <<>>,
     linux_spot_price |-> NA, windows_spot_price |-> NA]

\* An update that builds the joined record afresh from the price entry.
PriceMergeReplacing(data, l) ==
    LET fresh == [interruption_rate |-> NA,
                  savings |-> NA,
                  linux_spot_price |-> l.linux_spot_price,
                  windows_spot_price |-> l.windows_spot_price,
                  memory_gb |-> NA,
                  cores |-> NA]
    IN  IF l.simple_name \in DOMAIN data
        THEN IF l.region_name \in DOMAIN data[l.simple_name]
             THEN [data EXCEPT ![l.simple_name][l.region_name] = fresh]
             ELSE data
        ELSE data @@ (l.simple_name :> (l.region_name :> fresh))

\* An update whose price-only record takes the defaults of a missing r and s.
PriceMergeDefaulting(data, l) ==
    IF l.simple_name \in DOMAIN data
    THEN IF l.region_name \in DOMAIN data[l.simple_name]
         THEN [data EXCEPT ![l.simple_name][l.region_name] =
                  [@ EXCEPT !.linux_spot_price = l.linux_spot_price,
                            !.windows_spot_price = l.windows_spot_price]]
         ELSE data
    ELSE data @@ (l.simple_name :> (l.region_name :>
            [interruption_rate |-> "< 5%",
             savings |-> "0%",
             linux_spot_price |-> l.linux_spot_price,
             windows_spot_price |-> l.windows_spot_price,
             memory_gb |-> NA,
             cores |-> NA]))

\* The update of lines 270-299 with the locals l.
PriceMerge(data, l) ==
    IF l.simple_name \in DOMAIN data
    THEN IF l.region_name \in DOMAIN data[l.simple_name]
         THEN [data EXCEPT ![l.simple_name][l.region_name] =
                  [@ EXCEPT !.linux_spot_price = l.linux_spot_price,
                            !.windows_spot_price = l.windows_spot_price]]
         ELSE data
    ELSE data @@ (l.simple_name :> (l.region_name :>
            [interruption_rate |-> NA,
             savings |-> NA,
             linux_spot_price |-> l.linux_spot_price,
             windows_spot_price |-> l.windows_spot_price,
             memory_gb |-> NA,
             cores |-> NA]))

\* A match on the family and the size alone, without the substring test.
MatchesSegmentsOnly(instance_name, filter_instance) ==
    LET parts == Split(instance_name)
        family == parts[1]
        size == IF Len(parts) >= 2 THEN parts[2] ELSE <<>>
    IN  family = filter_instance \/ size = filter_instance

\* A match in which the empty filter is a substring of no name.
MatchesButEmpty(instance_name, filter_instance) ==
    LET parts == Split(instance_name)
        family == parts[1]
        size == IF Len(parts) >= 2 THEN parts[2] ELSE <<>>
    IN  \/ family = filter_instance
        \/ size = filter_instance
        \/ (filter_instance # <<>> /\ Contains(instance_name, filter_instance))

\* matches (lines 316-323).
Matches(instance_name, filter_instance) ==
    LET parts == Split(instance_name)
        family == parts[1]
        size == IF Len(parts) >= 2 THEN parts[2] ELSE <<>>
    IN  \/ family = filter_instance
        \/ size = filter_instance
        \/ Contains(instance_name, filter_instance)

\* One visit of the filter loop (lines 312-333).
FilterOne(filtered, data, instance_name, reg, filter) ==
    IF filter.t = "str" /\ ~Matches(instance_name, filter.v) THEN filtered
    ELSE IF reg \in DOMAIN data[instance_name]
         THEN Append(filtered, <<instance_name, data[instance_name][reg]>>)
         ELSE filtered

\* The rows left in the order the filter loop pushed them.
Unsorted(seq) == seq

\* sort_by(|a, b| a.0.cmp(&b.0)) (line 336): a stable sort on the name.
RECURSIVE SortByName(_)
SortByName(seq) ==
    IF seq = <<>> THEN <<>>
    ELSE LET sorted == SortByName(SubSeq(seq, 1, Len(seq) - 1))
             x == seq[Len(seq)]
             before == {i \in DOMAIN sorted : ~StrLess(x[1], sorted[i][1])}
             k == IF before = {} THEN 0 ELSE CHOOSE i \in before : \A j \in before : j <= i
         IN  SubSeq(sorted, 1, k) \o <<x>> \o SubSeq(sorted, k + 1, Len(sorted))

\* A row with the two price cells after the savings cell.
RowOfPricesLast(item, reg, show) ==
    <<item[1], reg, item[2].interruption_rate, item[2].memory_gb, item[2].cores,
      item[2].savings>>
    \o (IF show THEN <<item[2].linux_spot_price, item[2].windows_spot_price>> ELSE <<>>)

\* One table row (lines 340-355).
RowOf(item, reg, show) ==
    <<item[1], reg, item[2].interruption_rate, item[2].memory_gb, item[2].cores>>
    \o (IF show THEN <<item[2].linux_spot_price, item[2].windows_spot_price>> ELSE <<>>)
    \o <<item[2].savings>>

----------------------------------------------------------------------------
(* Input documents.                                                        *)

\* "m5.large"
M5Large == <<"m", "5", ".", "l", "a", "r", "g", "e">>

\* "m5.xlarge"
M5Xlarge == <<"m", "5", ".", "x", "l", "a", "r", "g", "e">>

\* "c5.large"
C5Large == <<"c", "5", ".", "l", "a", "r", "g", "e">>

\* "generalCurrentGen.m5"
GeneralM5 == <<"g", "e", "n", "e", "r", "a", "l", "C", "u", "r", "r", "e", "n", "t", "G", "e", "n", ".", "m", "5">>

\* "computeCurrentGen.c5"
ComputeC5 == <<"c", "o", "m", "p", "u", "t", "e", "C", "u", "r", "r", "e", "n", "t", "G", "e", "n", ".", "c", "5">>

\* "large"
Large == <<"l", "a", "r", "g", "e">>

\* "xlarge"
Xlarge == <<"x", "l", "a", "r", "g", "e">>

\* "m5"
FilterM5 == <<"m", "5">>

\* "5.la"
FilterInfix == <<"5", ".", "l", "a">>

\* "solo"
Solo == <<"s", "o", "l", "o">>

\* "generalCurrentGen.m5.large"
GeneralM5Large == <<"g", "e", "n", "e", "r", "a", "l", "C", "u", "r", "r", "e", "n", "t", "G", "e", "n", ".", "m", "5", ".", "l", "a", "r", "g", "e">>

East == "us-east-1"
West == "us-west-2"
Elsewhere == "ap-south-1"       \* a region neither document of Init holds

AdvisorEntry(r, s) == JObj(<<KV("r", JInt(r)), KV("s", JInt(s))>>)

SpecEntry(cores, ram_gb) == JObj(<<KV("cores", cores), KV("ram_gb", ram_gb), KV("emr", JStr("true"))>>)

\* The instance_types table of the advisor documents; m5.xlarge has no entry.
InstanceTypes ==
    JObj(<<KV(M5Large, SpecEntry(JInt(2), JInt(8))),
           KV(C5Large, SpecEntry(JInt(2), JHalf(3)))>>)

WindowsBranch == JObj(<<KV(M5Large, AdvisorEntry(4, 20)), KV(M5Xlarge, AdvisorEntry(1, 10))>>)

\* The "Linux" object of us-east-1: one entry, or three in unsorted order.
EastLinux(shape, rate) ==
    IF shape = 1 THEN JObj(<<KV(M5Large, AdvisorEntry(rate, 30))>>)
    ELSE JObj(<<KV(M5Xlarge, AdvisorEntry(1, 45)),
                KV(M5Large, AdvisorEntry(3, 60)),
                KV(C5Large, AdvisorEntry(rate, 30))>>)

AdvisorRegions(shape, rate, west) ==
    <<KV(East, JObj(<<KV("Windows", WindowsBranch), KV("Linux", EastLinux(shape, rate))>>))>>
    \o (IF west
        THEN <<KV(West, JObj(<<KV("Linux", JObj(<<KV(C5Large, AdvisorEntry(4, 70))>>))>>))>>
        ELSE <<>>)

AdvisorDoc(shape, rate, west) ==
    JObj(<<KV("instance_types", InstanceTypes),
           KV("spot_advisor", JObj(AdvisorRegions(shape, rate, west)))>>)

\* An advisor document with no spot_advisor member.
AdvisorMalformed == JObj(<<KV("instance_types", InstanceTypes)>>)

AdvisorDocs ==
    {AdvisorDoc(shape, rate, west) : shape \in 1..2, rate \in 0..MaxRate, west \in BOOLEAN}
    \cup {AdvisorMalformed}

Column(name, usd) == JObj(<<KV("name", JStr(name)), KV("prices", JObj(<<KV("USD", JStr(usd))>>))>>)

Size(size, columns) == JObj(<<KV("size", JStr(size)), KV("valueColumns", JArr(columns))>>)

Category(type, sizes) == JObj(<<KV("type", JStr(type)), KV("sizes", JArr(sizes))>>)

PriceRegion(name, categories) ==
    JObj(<<KV("region", JStr(name)), KV("instanceTypes", JArr(categories))>>)

PriceDoc(regions) == JObj(<<KV("config", JObj(<<KV("rate", JStr("perhr")), KV("regions", JArr(regions))>>))>>)

EastPrices(shape) ==
    IF shape = 1
    THEN PriceRegion(East, <<Category(GeneralM5, <<Size(Large, <<Column("linux", "0.0456")>>)>>)>>)
    ELSE PriceRegion(East,
            <<Category(GeneralM5,
                  <<Size(Xlarge, <<Column("linux", "0.0912"), Column("mswin", "0.1800")>>),
                    Size(Large, <<Column("linux", "0.0456")>>)>>),
              Category(ComputeC5,
                  <<Size(Large, <<Column("mswin", "0.1200"), Column("linux", "0.0400")>>)>>)>>)

WestPrices ==
    PriceRegion(West,
        <<Category(GeneralM5, <<Size(Large, <<Column("linux", "0.0500")>>)>>),
          Category(ComputeC5, <<Size(Large, <<Column("linux", "0.0410")>>)>>)>>)

\* A price document with no config.regions member.
PriceMalformed == JObj(<<KV("config", JObj(<<KV("rate", JStr("perhr"))>>))>>)

PriceDocs ==
    {PriceDoc(<<EastPrices(shape)>>) : shape \in 1..2}
    \cup {PriceDoc(<<EastPrices(shape), WestPrices>>) : shape \in 1..2}
    \cup {PriceDoc(<<WestPrices, EastPrices(shape)>>) : shape \in 1..2}
    \cup {PriceMalformed}

Filters == {None, JStr(FilterM5), JStr(Large), JStr(FilterInfix)}

\* The strings of at most n characters over '.' and 'a'.
Labels(n) == UNION {[1..k -> {Dot, "a"}] : k \in 0..n}

\* A price document of one region, one category and one size.
LabelDoc(type, size) ==
    PriceDoc(<<PriceRegion(East, <<Category(type, <<Size(size, <<Column("linux", "0.0456")>>)>>)>>)>>)

OtherRegion == "eu-west-1"

\* An advisor document whose regions share no instance type, with one region
\* that has no "Linux" member.
AdvisorSplit ==
    JObj(<<KV("instance_types", InstanceTypes),
           KV("spot_advisor",
              JObj(<<KV(East, JObj(<<KV("Linux", JObj(<<KV(M5Large, AdvisorEntry(2, 30))>>))>>)),
                     KV(OtherRegion, JObj(<<KV("Windows", WindowsBranch)>>)),
                     KV(West, JObj(<<KV("Linux", JObj(<<KV(M5Xlarge, AdvisorEntry(1, 45))>>))>>))>>))>>)

\* An advisor document with two entries under "Linux" that are no objects.
AdvisorBadEntry ==
    JObj(<<KV("instance_types", InstanceTypes),
           KV("spot_advisor",
              JObj(<<KV(East, JObj(<<KV("Linux",
                        JObj(<<KV(M5Xlarge, Null),
                               KV(M5Large, AdvisorEntry(2, 30)),
                               KV(C5Large, JArr(<<>>))>>))>>))>>))>>)

\* An advisor document with a region whose value is no object.
AdvisorBadRegion ==
    JObj(<<KV("instance_types", InstanceTypes),
           KV("spot_advisor",
              JObj(<<KV(East, JObj(<<KV("Linux", JObj(<<KV(M5Large, AdvisorEntry(2, 30))>>))>>)),
                     KV(West, JArr(<<>>))>>))>>)

PartialAdvisorDocs == {AdvisorSplit, AdvisorBadEntry, AdvisorBadRegion}

C5Sizes == <<Size(Large, <<Column("linux", "0.0410")>>)>>

\* A region of the price document with one piece missing: 1 the region
\* string, 2 the instanceTypes array, 3 a category's type, 4 a category's
\* sizes, 5 a size's size, 6 a size's valueColumns, 7 a column's name.
PartialRegion(missing) ==
    CASE missing = 1 ->
            JObj(<<KV("instanceTypes", JArr(<<Category(ComputeC5, C5Sizes)>>))>>)
      [] missing = 2 ->
            JObj(<<KV("region", JStr(West)), KV("instanceTypes", Null)>>)
      [] missing = 3 ->
            PriceRegion(West, <<JObj(<<KV("sizes", JArr(C5Sizes))>>),
                                Category(ComputeC5, C5Sizes)>>)
      [] missing = 4 ->
            PriceRegion(West, <<JObj(<<KV("type", JStr(GeneralM5))>>),
                                Category(ComputeC5, C5Sizes)>>)
      [] missing = 5 ->
            PriceRegion(West, <<Category(ComputeC5,
                <<JObj(<<KV("valueColumns", JArr(<<Column("linux", "0.0820")>>))>>)>> \o C5Sizes)>>)
      [] missing = 6 ->
            PriceRegion(West, <<Category(ComputeC5,
                <<JObj(<<KV("size", JStr(Xlarge))>>)>> \o C5Sizes)>>)
      [] OTHER ->
            PriceRegion(West, <<Category(ComputeC5,
                <<Size(Large, <<JObj(<<KV("prices", JObj(<<KV("USD", JStr("0.0410"))>>))>>),
                                Column("mswin", "0.1230")>>)>>)>>)

\* A price document with two size entries for m5.large in us-east-1, the
\* second without a linux column.
PriceDuplicate ==
    PriceDoc(<<PriceRegion(East,
        <<Category(GeneralM5, <<Size(Large, <<Column("linux", "0.0456"), Column("mswin", "0.1000")>>)>>),
          Category(FilterM5, <<Size(Large, <<Column("mswin", "0.2000")>>)>>)>>)>>)

PartialPriceDocs ==
    {PriceDoc(<<EastPrices(1), PartialRegion(missing)>>) : missing \in 1..7}
    \cup {PriceDoc(<<PartialRegion(missing), EastPrices(1)>>) : missing \in 1..7}
    \cup {PriceDuplicate}

\* An object of the members whose value is there (None: the key is missing).
Members(pairs) ==
    LET Present(m) == m.val.t # "none"
    IN  JObj(SelectSeq(pairs, Present))

\* The shapes a numeric field takes: missing, null, a string, an unsigned
\* integer, a number with a fraction, a negative integer.
FieldShapes == {None, Null, JStr("high"), JInt(2), JHalf(2), JInt(0 - 1)}

\* Advisor documents whose one entry has r and s of every shape.
EntryDoc(r, s) ==
    JObj(<<KV("instance_types", InstanceTypes),
           KV("spot_advisor",
              JObj(<<KV(East, JObj(<<KV("Linux",
                        JObj(<<KV(M5Large, Members(<<KV("r", r), KV("s", s)>>))>>))>>))>>))>>)

EntryDocs == {EntryDoc(r, s) : r \in FieldShapes, s \in FieldShapes}

\* Advisor documents whose instance_types has cores and ram_gb of every
\* shape for m5.large, or an entry that is no object.
TypesDoc(entry) ==
    JObj(<<KV("instance_types",
              JObj(<<KV(M5Large, entry), KV(C5Large, SpecEntry(JInt(2), JHalf(3)))>>)),
           KV("spot_advisor",
              JObj(<<KV(East, JObj(<<KV("Linux",
                        JObj(<<KV(M5Large, AdvisorEntry(2, 30))>>))>>))>>))>>)

TypesDocs ==
    {TypesDoc(Members(<<KV("cores", cores), KV("ram_gb", ram_gb)>>))
     : cores \in FieldShapes, ram_gb \in FieldShapes}
    \cup {TypesDoc(Null), TypesDoc(JArr(<<>>))}

\* The value columns tried: four names, each with a price string, with the
\* literal string "N/A", with a USD that is no string, or without prices.
ColumnNames == {"linux", "mswin", "Linux", "linux2"}

PriceColumn(name, usd) ==
    Members(<<KV("name", JStr(name)),
              KV("prices", IF usd.t = "none" THEN None ELSE JObj(<<KV("USD", usd)>>))>>)

ColumnChoices ==
    {PriceColumn(name, usd)
     : name \in ColumnNames, usd \in {JStr("0.0456"), JStr("N/A"), Null, None}}

\* The sequences of at most n value columns.
ColumnSeqs(n) == UNION {[1..k -> ColumnChoices] : k \in 0..n}

\* A price document of one size entry with the given value columns.
ColumnsDoc(columns) ==
    PriceDoc(<<PriceRegion(East, <<Category(GeneralM5, <<Size(Large, columns)>>)>>)>>)

----------------------------------------------------------------------------
(* display_spot_data as a state machine.                                   *)

\* The locals of fetch_spot_price_data before they are assigned, and no error.
NoFetch == [start_idx |-> 0, end_idx |-> 0, json_str |-> <<>>]

NoError == [kind |-> "none", region |-> "", message |-> ""]

\* A command line that is not looked at.
NoArgs == [given |-> FALSE, region |-> ""]

\* display_spot_data is checked as a call of its own: the command line and
\* the fetch hold nothing.
Entered ==
    /\ args = NoArgs
    /\ text = <<>>
    /\ fetch = NoFetch
    /\ error = NoError
    /\ calls = <<>>
    /\ pc = "start"
    /\ instance_specs = EmptyMap
    /\ instance_data = EmptyMap
    /\ advisor_todo = <<>>
    /\ price_todo = <<>>
    /\ cur = NoLocals
    /\ filter_todo = {}
    /\ filtered_data = <<>>
    /\ table = <<>>
    /\ result = "running"

\* The documents family: every combination of the advisor and price documents
\* above, of the three regions and of the four filters.
InitDocs ==
    /\ region \in {East, West, Elsewhere}
    /\ instance_type \in Filters
    /\ show_spot_price \in BOOLEAN
    /\ advisor_data \in AdvisorDocs
    /\ price_data \in PriceDocs
    /\ Entered

\* The labels family: one price entry whose type and size labels, and the
\* filter, range over every short string of dots and letters.
InitLabels ==
    /\ region = East
    /\ instance_type \in {None} \cup {JStr(f) : f \in Labels(MaxLabel)}
    /\ show_spot_price \in BOOLEAN
    /\ advisor_data = AdvisorDoc(1, 2, FALSE)
    /\ price_data \in {LabelDoc(type, size) : type \in Labels(MaxLabel), size \in Labels(MaxLabel)}
    /\ Entered

\* The partial family: documents with a piece missing or of the wrong shape,
\* or with two entries for one key, each against plain documents.
InitPartial ==
    /\ region \in {East, West}
    /\ instance_type \in {None, JStr(Large)}
    /\ show_spot_price \in BOOLEAN
    /\ \/ /\ advisor_data \in PartialAdvisorDocs
          /\ price_data \in {PriceDoc(<<EastPrices(2)>>), PriceDoc(<<EastPrices(1), WestPrices>>)}
       \/ /\ advisor_data \in {AdvisorDoc(1, 2, FALSE), AdvisorDoc(2, 2, TRUE)}
          /\ price_data \in PartialPriceDocs
    /\ Entered

\* The fields family: one advisor entry, one instance_types entry or one
\* size entry whose fields take every shape.
InitFields ==
    /\ region = East
    /\ instance_type = None
    /\ show_spot_price = TRUE
    /\ \/ /\ advisor_data \in EntryDocs \cup TypesDocs
          /\ price_data = PriceDoc(<<EastPrices(1)>>)
       \/ /\ advisor_data = AdvisorDoc(1, 2, FALSE)
          /\ price_data \in {ColumnsDoc(columns) : columns \in ColumnSeqs(MaxColumns)}
    /\ Entered

Init == InitDocs \/ InitLabels \/ InitPartial \/ InitFields

\* What display_spot_data does not write.
Inputs == <<region, instance_type, show_spot_price, advisor_data, price_data,
            args, text, fetch, error, calls>>

\* Lines 23-70: the header row and instance_specs.
Start ==
    /\ pc = "start"
    /\ table' = <<Headers(show_spot_price)>>
    /\ instance_specs' = BuildSpecs(advisor_data)
    /\ pc' = "unwrap"
    /\ UNCHANGED <<Inputs, instance_data, advisor_todo, price_todo, cur,
                   filter_todo, filtered_data, result>>

\* The region checks of lines 79-106 turned into an early error return.
UnwrapRejectingUnknownRegion ==
    /\ pc = "unwrap"
    /\ IF \/ ~IsObject(Idx(advisor_data, "spot_advisor"))
          \/ ~IsArray(Idx(Idx(price_data, "config"), "regions"))
       THEN /\ pc' = "panic"
            /\ result' = "panic"
            /\ UNCHANGED advisor_todo
       ELSE IF /\ \A i \in DOMAIN Idx(advisor_data, "spot_advisor").v :
                     Idx(advisor_data, "spot_advisor").v[i].k # region
               /\ \A i \in DOMAIN Idx(Idx(price_data, "config"), "regions").v :
                     Get(Idx(Idx(price_data, "config"), "regions").v[i], "region") # JStr(region)
       THEN /\ pc' = "done"
            /\ result' = "Err"
            /\ UNCHANGED advisor_todo
       ELSE /\ pc' = "advisor"
            /\ advisor_todo' = AdvisorEvents(Idx(advisor_data, "spot_advisor").v)
            /\ UNCHANGED result
    /\ UNCHANGED <<Inputs, instance_specs, instance_data, price_todo, cur,
                   filter_todo, filtered_data, table>>

\* Lines 72-113: the unwraps of spot_advisor and config.regions; the region
\* checks of lines 79-106 only log.
Unwrap ==
    /\ pc = "unwrap"
    /\ IF \/ ~IsObject(Idx(advisor_data, "spot_advisor"))
          \/ ~IsArray(Idx(Idx(price_data, "config"), "regions"))
       THEN /\ pc' = "panic"
            /\ result' = "panic"
            /\ UNCHANGED advisor_todo
       ELSE /\ pc' = "advisor"
            /\ advisor_todo' = AdvisorEvents(Idx(advisor_data, "spot_advisor").v)
            /\ UNCHANGED result
    /\ UNCHANGED <<Inputs, instance_specs, instance_data, price_todo, cur,
                   filter_todo, filtered_data, table>>

\* One iteration of the advisor loops (lines 116-180).
AdvisorVisit ==
    /\ pc = "advisor"
    /\ advisor_todo # <<>>
    /\ IF Head(advisor_todo).kind = "panic"
       THEN /\ pc' = "panic"
            /\ result' = "panic"
            /\ UNCHANGED <<instance_data, advisor_todo>>
       ELSE /\ instance_data' = SeedOne(instance_data, instance_specs, Head(advisor_todo))
            /\ advisor_todo' = Tail(advisor_todo)
            /\ UNCHANGED <<pc, result>>
    /\ UNCHANGED <<Inputs, instance_specs, price_todo, cur, filter_todo,
                   filtered_data, table>>

\* Lines 182-190: the advisor loops are over, the price loops begin.
AdvisorEnd ==
    /\ pc = "advisor"
    /\ advisor_todo = <<>>
    /\ pc' = "price"
    /\ price_todo' = PriceEvents(Idx(Idx(price_data, "config"), "regions").v)
    /\ UNCHANGED <<Inputs, instance_specs, instance_data, advisor_todo, cur,
                   filter_todo, filtered_data, table, result>>

\* One iteration of the price loops (lines 191-302).
PriceVisit ==
    /\ pc = "price"
    /\ price_todo # <<>>
    /\ IF Head(price_todo).kind = "panic" \/ SizePanics(Head(price_todo).data)
       THEN /\ pc' = "panic"
            /\ result' = "panic"
            /\ UNCHANGED <<instance_data, price_todo, cur>>
       ELSE /\ cur' = SizeLocals(Head(price_todo))
            /\ instance_data' = PriceMerge(instance_data, cur')
            /\ price_todo' = Tail(price_todo)
            /\ UNCHANGED <<pc, result>>
    /\ UNCHANGED <<Inputs, instance_specs, advisor_todo, filter_todo,
                   filtered_data, table>>

\* Lines 304-310: the price loops are over, the filter loop begins.
PriceEnd ==
    /\ pc = "price"
    /\ price_todo = <<>>
    /\ pc' = "filter"
    /\ filter_todo' = DOMAIN instance_data
    /\ UNCHANGED <<Inputs, instance_specs, instance_data, advisor_todo, price_todo,
                   cur, filtered_data, table, result>>

\* One iteration of the filter loop (lines 312-333); a HashMap yields its
\* keys in an order the program does not control.
FilterVisit ==
    /\ pc = "filter"
    /\ \E instance_name \in filter_todo :
        /\ filtered_data' = FilterOne(filtered_data, instance_data, instance_name,
                                      region, instance_type)
        /\ filter_todo' = filter_todo \ {instance_name}
    /\ UNCHANGED <<Inputs, pc, instance_specs, instance_data, advisor_todo,
                   price_todo, cur, table, result>>

\* Line 336: the sort.
Sort ==
    /\ pc = "filter"
    /\ filter_todo = {}
    /\ filtered_data' = SortByName(filtered_data)
    /\ pc' = "rows"
    /\ UNCHANGED <<Inputs, instance_specs, instance_data, advisor_todo, price_todo,
                   cur, filter_todo, table, result>>

\* Lines 338-369: the rows are added, the table is printed, Ok(()) returned.
Emit ==
    /\ pc = "rows"
    /\ table' = table \o [i \in DOMAIN filtered_data |->
                            RowOf(filtered_data[i], region, show_spot_price)]
    /\ result' = "Ok"
    /\ pc' = "done"
    /\ UNCHANGED <<Inputs, instance_specs, instance_data, advisor_todo, price_todo,
                   cur, filter_todo, filtered_data>>

Next ==
    \/ Start
    \/ Unwrap
    \/ AdvisorVisit
    \/ AdvisorEnd
    \/ PriceVisit
    \/ PriceEnd
    \/ FilterVisit
    \/ Sort
    \/ Emit

Spec == Init /\ [][Next]_vars

----------------------------------------------------------------------------
(* fetch_spot_price_data: the extraction of the JSON document from the     *)
(* response body (src/src/aws.rs, lines 82-99; src/src/main.rs, lines      *)
(* 125-142 hold an identical copy).  The body is a sequence of             *)
(* one-character strings, all ASCII, so a byte offset is a position.       *)

Quote == "\""

\* "callback("
CallbackPrefix == <<"c", "a", "l", "l", "b", "a", "c", "k", "(">>

\* str::find(pat): the smallest position at which pat starts, 0 for None.
FindStr(s, pat) ==
    LET hits == {i \in 1..(Len(s) - Len(pat) + 1) : SubSeq(s, i, i + Len(pat) - 1) = pat}
    IN  IF hits = {} THEN 0 ELSE CHOOSE i \in hits : \A j \in hits : i <= j

\* str::rfind(c): the largest position holding c, 0 for None.
RFindChar(s, c) ==
    LET hits == {i \in 1..Len(s) : s[i] = c}
    IN  IF hits = {} THEN 0 ELSE CHOOSE i \in hits : \A j \in hits : j <= i

\* start_idx (lines 83-87), a byte offset from 0.
StartIdx(t) ==
    IF FindStr(t, CallbackPrefix) # 0
    THEN (FindStr(t, CallbackPrefix) - 1) + Len(CallbackPrefix)
    ELSE IF FindStr(t, <<"{">>) # 0 THEN FindStr(t, <<"{">>) - 1 ELSE 0

\* end_idx (line 89), a byte offset from 0.
EndIdx(t) == IF RFindChar(t, "}") # 0 THEN RFindChar(t, "}") - 1 ELSE Len(t)

\* &text[start_idx..=end_idx] panics when the range start_idx..end_idx + 1
\* is not inside the text.
SlicePanics(t, start_idx, end_idx) == start_idx > end_idx + 1 \/ end_idx + 1 > Len(t)

\* A slice that leaves the byte at end_idx out.
JsonStrExclusive(t, start_idx, end_idx) == SubSeq(t, start_idx + 1, end_idx)

\* &text[start_idx..=end_idx] (line 90).
JsonStr(t, start_idx, end_idx) == SubSeq(t, start_idx + 1, end_idx + 1)

\* Lines 93-97: a trailing ')' is removed.
StripParen(json_str) ==
    IF json_str # <<>> /\ json_str[Len(json_str)] = ")"
    THEN SubSeq(json_str, 1, Len(json_str) - 1)
    ELSE json_str

\* serde_json::from_str::<Value> (line 99) on the documents of this model:
\* objects, arrays, strings without escapes, unsigned integers and null.
\* A parse yields [ok, val, next]: next is the position after the value.
Failed == [ok |-> FALSE, val |-> Null, next |-> 0]

Parsed(value, next) == [ok |-> TRUE, val |-> value, next |-> next]

RECURSIVE SkipWs(_, _)
SkipWs(s, i) == IF i <= Len(s) /\ s[i] = " " THEN SkipWs(s, i + 1) ELSE i

IsDigit(c) == \E d \in DOMAIN Digits : Digits[d] = c

\* A string: from the quote at i to the next quote.
ParseString(s, i) ==
    LET closing == {j \in (i + 1)..Len(s) : s[j] = Quote}
    IN  IF i > Len(s) \/ s[i] # Quote \/ closing = {} THEN Failed
        ELSE LET j == CHOOSE j \in closing : \A k \in closing : j <= k
             IN  Parsed(JStr(SubSeq(s, i + 1, j - 1)), j + 1)

\* An unsigned integer: the digits from i on; a leading zero stands alone.
RECURSIVE DigitsEnd(_, _)
DigitsEnd(s, i) == IF i <= Len(s) /\ IsDigit(s[i]) THEN DigitsEnd(s, i + 1) ELSE i

RECURSIVE NumberOf(_)
NumberOf(ds) ==
    IF ds = <<>> THEN 0
    ELSE 10 * NumberOf(SubSeq(ds, 1, Len(ds) - 1)) + (IndexIn(Digits, ds[Len(ds)]) - 1)

ParseNumber(s, i) ==
    LET e == DigitsEnd(s, i)
    IN  IF s[i] = "0" /\ e > i + 1 THEN Failed
        ELSE Parsed(JInt(NumberOf(SubSeq(s, i, e - 1))), e)

\* Map::insert: the value of a key that is there is replaced.
Insert(members, key, value) ==
    IF \E i \in DOMAIN members : members[i].k = key
    THEN [i \in DOMAIN members |-> IF members[i].k = key THEN KV(key, value) ELSE members[i]]
    ELSE Append(members, KV(key, value))

RECURSIVE ParseValue(_, _)
RECURSIVE ParseMembers(_, _, _)
RECURSIVE ParseElements(_, _, _)

\* The members of an object from position i on, i at a key.
ParseMembers(s, i, members) ==
    LET key == ParseString(s, i)
        colon == SkipWs(s, key.next)
    IN  IF ~key.ok \/ colon > Len(s) \/ s[colon] # ":" THEN Failed
        ELSE LET value == ParseValue(s, colon + 1)
                 sep == SkipWs(s, value.next)
                 more == Insert(members, key.val.v, value.val)
             IN  IF ~value.ok \/ sep > Len(s) THEN Failed
                 ELSE IF s[sep] = "}" THEN Parsed(JObj(more), sep + 1)
                 ELSE IF s[sep] = "," THEN ParseMembers(s, SkipWs(s, sep + 1), more)
                 ELSE Failed

\* The elements of an array from position i on, i at a value.
ParseElements(s, i, elements) ==
    LET value == ParseValue(s, i)
        sep == SkipWs(s, value.next)
    IN  IF ~value.ok \/ sep > Len(s) THEN Failed
        ELSE IF s[sep] = "]" THEN Parsed(JArr(Append(elements, value.val)), sep + 1)
        ELSE IF s[sep] = "," THEN ParseElements(s, sep + 1, Append(elements, value.val))
        ELSE Failed

ParseValue(s, i) ==
    LET at == SkipWs(s, i)
    IN  IF at > Len(s) THEN Failed
        ELSE IF s[at] = Quote THEN ParseString(s, at)
        ELSE IF IsDigit(s[at]) THEN ParseNumber(s, at)
        ELSE IF at + 3 <= Len(s) /\ SubSeq(s, at, at + 3) = <<"n", "u", "l", "l">>
             THEN Parsed(Null, at + 4)
        ELSE IF s[at] = "{"
             THEN LET first == SkipWs(s, at + 1)
                  IN  IF first <= Len(s) /\ s[first] = "}" THEN Parsed(JObj(<<>>), first + 1)
                      ELSE ParseMembers(s, first, <<>>)
        ELSE IF s[at] = "["
             THEN LET first == SkipWs(s, at + 1)
                  IN  IF first <= Len(s) /\ s[first] = "]" THEN Parsed(JArr(<<>>), first + 1)
                      ELSE ParseElements(s, first, <<>>)
        ELSE Failed

\* from_str: one value and nothing but whitespace after it.
FromStr(s) ==
    LET value == ParseValue(s, 1)
    IN  IF value.ok /\ SkipWs(s, value.next) > Len(s) THEN value ELSE Failed

\* The text of a document, sp after every colon: what the response body
\* holds between "callback(" and ")".
RECURSIVE DigitsOf(_)
DigitsOf(n) ==
    IF n < 10 THEN <<Digits[n + 1]>> ELSE DigitsOf(n \div 10) \o <<Digits[(n % 10) + 1]>>

RECURSIVE Join(_)
Join(seqs) ==
    IF seqs = <<>> THEN <<>>
    ELSE IF Len(seqs) = 1 THEN seqs[1]
    ELSE seqs[1] \o <<",">> \o Join(Tail(seqs))

RECURSIVE Render(_, _)
Render(x, sp) ==
    CASE x.t = "str" -> <<Quote>> \o x.v \o <<Quote>>
      [] x.t = "int" -> DigitsOf(x.v)
      [] x.t = "obj" ->
            <<"{">> \o Join([i \in DOMAIN x.v |->
                                <<Quote>> \o x.v[i].k \o <<Quote, ":">> \o sp
                                \o Render(x.v[i].val, sp)]) \o <<"}">>
      [] x.t = "arr" ->
            <<"[">> \o Join([i \in DOMAIN x.v |-> Render(x.v[i], sp)]) \o <<"]">>
      [] OTHER -> <<"n", "u", "l", "l">>

\* The objects the response bodies carry; the first is that of
\* test_extract_json_from_callback.
FetchObjects ==
    << JObj(<<KV(<<"k", "e", "y">>, JStr(<<"v", "a", "l", "u", "e">>))>>),
       JObj(<<>>),
       JObj(<<KV(<<"k">>, JStr(<<"}">>))>>),
       JObj(<<KV(<<"k">>, JStr(<<")">>))>>),
       JObj(<<KV(<<"k">>, JStr(<<"{">>))>>),
       JObj(<<KV(<<"a">>, JObj(<<KV(<<"b">>, JStr(<<"c">>))>>))>>),
       JObj(<<KV(<<"a">>, JObj(<<>>)), KV(<<"n">>, JInt(70))>>),
       JObj(<<KV(<<"c">>, JStr(CallbackPrefix))>>),
       JObj(<<KV(<<"a">>, JArr(<<JStr(<<"x">>), JObj(<<>>), Null>>))>>) >>

Spacings == {<<>>, <<" ">>}

\* The bodies around a document's text j: 1 callback(j), 2 callback(j);,
\* 3 j alone, 4 callback(j, 5 a prefix before callback(j), 6 j before
\* callback(, 7 j).
Wrap(form, j) ==
    CASE form = 1 -> CallbackPrefix \o j \o <<")">>
      [] form = 2 -> CallbackPrefix \o j \o <<")", ";">>
      [] form = 3 -> j
      [] form = 4 -> CallbackPrefix \o j
      [] form = 5 -> <<"x", " ">> \o CallbackPrefix \o j \o <<")">>
      [] form = 6 -> j \o CallbackPrefix
      [] OTHER -> j \o <<")">>

\* Bodies that carry no document.
OddTexts ==
    {<<>>, <<"x">>, <<"}">>, <<"{">>, <<"}", "{">>, <<"}", "x", "{">>,
     CallbackPrefix, CallbackPrefix \o <<")">>, CallbackPrefix \o <<"}">>,
     <<"}">> \o CallbackPrefix}

FetchTexts ==
    {Wrap(form, Render(FetchObjects[j], sp))
     : form \in 1..7, j \in DOMAIN FetchObjects, sp \in Spacings}
    \cup OddTexts

\* Nothing of display_spot_data or of the command line has happened.
RestIdle ==
    /\ region = East
    /\ instance_type = None
    /\ show_spot_price = FALSE
    /\ advisor_data = Null
    /\ instance_specs = EmptyMap
    /\ instance_data = EmptyMap
    /\ advisor_todo = <<>>
    /\ price_todo = <<>>
    /\ cur = NoLocals
    /\ filter_todo = {}
    /\ filtered_data = <<>>
    /\ table = <<>>
    /\ result = "running"
    /\ error = NoError
    /\ calls = <<>>

\* The response body has arrived (line 79).
FetchInit ==
    /\ text \in FetchTexts
    /\ fetch = NoFetch
    /\ price_data = Null
    /\ args = NoArgs
    /\ pc = "locate"
    /\ RestIdle

Untouched ==
    <<region, instance_type, show_spot_price, advisor_data, instance_specs,
      instance_data, advisor_todo, price_todo, cur, filter_todo, filtered_data,
      table, args, text, calls>>

\* Lines 82-89: start_idx and end_idx.
Locate ==
    /\ pc = "locate"
    /\ fetch' = [fetch EXCEPT !.start_idx = StartIdx(text), !.end_idx = EndIdx(text)]
    /\ pc' = "slice"
    /\ UNCHANGED <<Untouched, price_data, result, error>>

\* Line 90: the slice, or its panic.
Slice ==
    /\ pc = "slice"
    /\ IF SlicePanics(text, fetch.start_idx, fetch.end_idx)
       THEN /\ pc' = "panic"
            /\ result' = "panic"
            /\ UNCHANGED fetch
       ELSE /\ fetch' = [fetch EXCEPT !.json_str = JsonStr(text, fetch.start_idx, fetch.end_idx)]
            /\ pc' = "strip"
            /\ UNCHANGED result
    /\ UNCHANGED <<Untouched, price_data, error>>

\* Lines 93-97: the trailing parenthesis.
Strip ==
    /\ pc = "strip"
    /\ fetch' = [fetch EXCEPT !.json_str = StripParen(fetch.json_str)]
    /\ pc' = "parse"
    /\ UNCHANGED <<Untouched, price_data, result, error>>

\* Line 99 and the return of line 188: the parse, whose error `?` returns.
Parse ==
    /\ pc = "parse"
    /\ IF FromStr(fetch.json_str).ok
       THEN /\ price_data' = FromStr(fetch.json_str).val
            /\ result' = "Ok"
            /\ UNCHANGED error
       ELSE /\ result' = "Err"
            /\ error' = [kind |-> "serde_json::Error", region |-> "", message |-> ""]
            /\ UNCHANGED price_data
    /\ pc' = "fetched"
    /\ UNCHANGED <<Untouched, fetch>>

FetchNext ==
    \/ Locate
    \/ Slice
    \/ Strip
    \/ Parse

FetchSpec == FetchInit /\ [][FetchNext]_vars

----------------------------------------------------------------------------
(* The command line and its validation (src/src/cli.rs).                   *)

VALID_AWS_REGIONS ==
    <<"us-east-1", "us-east-2", "us-west-1", "us-west-2", "af-south-1",
      "ap-east-1", "ap-south-1", "ap-south-2", "ap-southeast-1", "ap-southeast-2",
      "ap-southeast-3", "ap-southeast-4", "ap-northeast-1", "ap-northeast-2",
      "ap-northeast-3", "ca-central-1", "ca-west-1", "eu-central-1", "eu-central-2",
      "eu-west-1", "eu-west-2", "eu-west-3", "eu-south-1", "eu-south-2",
      "eu-north-1", "il-central-1", "me-south-1", "me-central-1", "sa-east-1">>

\* default_value of --region (line 10).
DefaultRegion == "us-east-1"

\* Display of InvalidRegionError (lines 30-38).
InvalidRegionMessage(r) ==
    "Invalid AWS region '" \o r
    \o "'. Please use a valid AWS region code (e.g., us-east-1, eu-west-1, ap-northeast-1)"

InvalidRegionError(r) ==
    [kind |-> "InvalidRegionError", region |-> r, message |-> InvalidRegionMessage(r)]

\* A validation that misses the last code of the list.
ValidateRegionButLast(r) ==
    IF \E i \in 1..(Len(VALID_AWS_REGIONS) - 1) : VALID_AWS_REGIONS[i] = r
    THEN [ok |-> TRUE, err |-> NoError]
    ELSE [ok |-> FALSE, err |-> InvalidRegionError(r)]

\* validate_region (lines 77-85).
ValidateRegion(r) ==
    IF \E i \in DOMAIN VALID_AWS_REGIONS : VALID_AWS_REGIONS[i] = r
    THEN [ok |-> TRUE, err |-> NoError]
    ELSE [ok |-> FALSE, err |-> InvalidRegionError(r)]

\* The values of --region tried: every code of the list, every code with a
\* character more at either end, and strings of the tests of lines 164-216.
RegionArguments ==
    {VALID_AWS_REGIONS[i] : i \in DOMAIN VALID_AWS_REGIONS}
    \cup {VALID_AWS_REGIONS[i] \o "0" : i \in DOMAIN VALID_AWS_REGIONS}
    \cup {" " \o VALID_AWS_REGIONS[i] : i \in DOMAIN VALID_AWS_REGIONS}
    \cup {"", "invalid-region", "us-east-3", "eu-west-4", "not-a-region",
          "US-EAST-1", "Us-East-1", "us-east", "us-east-", "us-east-1 ", "useast1"}

\* The command line is there; nothing else has happened.
CliInit ==
    /\ args \in {NoArgs} \cup {[given |-> TRUE, region |-> r] : r \in RegionArguments}
    /\ pc = "cli"
    /\ region = ""
    /\ instance_type = None
    /\ show_spot_price = FALSE
    /\ advisor_data = Null
    /\ price_data = Null
    /\ instance_specs = EmptyMap
    /\ instance_data = EmptyMap
    /\ advisor_todo = <<>>
    /\ price_todo = <<>>
    /\ cur = NoLocals
    /\ filter_todo = {}
    /\ filtered_data = <<>>
    /\ table = <<>>
    /\ result = "running"
    /\ text = <<>>
    /\ fetch = NoFetch
    /\ error = NoError
    /\ calls = <<>>

CliRest ==
    <<instance_type, show_spot_price, advisor_data, price_data, instance_specs,
      instance_data, advisor_todo, price_todo, cur, filter_todo, filtered_data,
      table, args, text, fetch, calls>>

\* Cli::parse_from (lines 8-11): --region, or its default.
CliParse ==
    /\ pc = "cli"
    /\ region' = IF args.given THEN args.region ELSE DefaultRegion
    /\ pc' = "validate"
    /\ UNCHANGED <<CliRest, result, error>>

\* Cli::validate (lines 87-93): validate_region(&self.region)?; Ok(()).
CliValidate ==
    /\ pc = "validate"
    /\ IF ValidateRegion(region).ok
       THEN /\ result' = "Ok"
            /\ UNCHANGED error
       ELSE /\ result' = "Err"
            /\ error' = ValidateRegion(region).err
    /\ pc' = "validated"
    /\ UNCHANGED <<CliRest, region>>

CliNext ==
    \/ CliParse
    \/ CliValidate

CliSpec == CliInit /\ [][CliNext]_vars

----------------------------------------------------------------------------
(* main (src/src/main.rs, lines 28-50), with the Cli of lines 9-26.  The   *)
(* binary calls its own copies of the two fetches and of display_spot_data *)
(* (main.rs, lines 52-589); the copy of display_spot_data is the function  *)
(* of display.rs line for line, so its steps are the actions above.  What  *)
(* a fetch returns is decided by the network: an error, or a document.     *)

\* default_value of --region (main.rs, line 13).
MainDefaultRegion == "us-east-1"

\* The error of a fetch that failed: `?` on send, json, text or from_str.
FetchError(which) == [kind |-> "FetchError", region |-> "", message |-> which]

\* The documents the advisor fetch may return.
FetchedAdvisorDocs == {AdvisorDoc(1, 2, FALSE), AdvisorDoc(1, 2, TRUE), Null}

\* The documents the price fetch may return.
FetchedPriceDocs == {PriceDoc(<<EastPrices(1)>>), PriceDoc(<<EastPrices(1), WestPrices>>)}

\* The process has started: the command line is there.
MainInit ==
    /\ args \in {NoArgs} \cup {[given |-> TRUE, region |-> r] : r \in RegionArguments}
    /\ instance_type \in {None, JStr(FilterM5)}
    /\ show_spot_price \in BOOLEAN
    /\ pc = "main"
    /\ region = ""
    /\ advisor_data = Null
    /\ price_data = Null
    /\ instance_specs = EmptyMap
    /\ instance_data = EmptyMap
    /\ advisor_todo = <<>>
    /\ price_todo = <<>>
    /\ cur = NoLocals
    /\ filter_todo = {}
    /\ filtered_data = <<>>
    /\ table = <<>>
    /\ result = "running"
    /\ text = <<>>
    /\ fetch = NoFetch
    /\ error = NoError
    /\ calls = <<>>

\* What the steps of main outside display_spot_data leave alone.
MainRest ==
    <<instance_type, show_spot_price, instance_specs, instance_data,
      advisor_todo, price_todo, cur, filter_todo, filtered_data, table, args,
      text, fetch>>

\* Cli::parse() that goes on to Cli::validate of cli.rs before any fetch.
MainParseValidating ==
    /\ pc = "main"
    /\ region' = IF args.given THEN args.region ELSE MainDefaultRegion
    /\ IF ValidateRegion(region').ok
       THEN /\ pc' = "fetch_advisor"
            /\ UNCHANGED <<result, error>>
       ELSE /\ pc' = "exit"
            /\ result' = "Err"
            /\ error' = ValidateRegion(region').err
    /\ UNCHANGED <<MainRest, advisor_data, price_data, calls>>

\* Lines 30-36: Cli::parse(), the logger and the client.
MainParse ==
    /\ pc = "main"
    /\ region' = IF args.given THEN args.region ELSE MainDefaultRegion
    /\ pc' = "fetch_advisor"
    /\ UNCHANGED <<MainRest, advisor_data, price_data, result, error, calls>>

\* Line 37: fetch_spot_advisor_data(&client) is called.
AdvisorFetchBegin ==
    /\ pc = "fetch_advisor"
    /\ calls' = Append(calls, "advisor_begin")
    /\ pc' = "advisor_pending"
    /\ UNCHANGED <<MainRest, region, advisor_data, price_data, result, error>>

\* An advisor fetch whose failure main does not return.
AdvisorFetchEndGoingOn ==
    /\ pc = "advisor_pending"
    /\ \/ /\ calls' = Append(calls, "advisor_err")
          /\ error' = FetchError("advisor")
          /\ pc' = "fetch_price"
          /\ UNCHANGED <<advisor_data, result>>
       \/ \E data \in FetchedAdvisorDocs :
             /\ calls' = Append(calls, "advisor_ok")
             /\ advisor_data' = data
             /\ pc' = "fetch_price"
             /\ UNCHANGED <<result, error>>
    /\ UNCHANGED <<MainRest, region, price_data>>

\* Line 37: .await?: the fetch is over; its Err is what main returns.
AdvisorFetchEnd ==
    /\ pc = "advisor_pending"
    /\ \/ /\ calls' = Append(calls, "advisor_err")
          /\ error' = FetchError("advisor")
          /\ result' = "Err"
          /\ pc' = "exit"
          /\ UNCHANGED advisor_data
       \/ \E data \in FetchedAdvisorDocs :
             /\ calls' = Append(calls, "advisor_ok")
             /\ advisor_data' = data
             /\ pc' = "fetch_price"
             /\ UNCHANGED <<result, error>>
    /\ UNCHANGED <<MainRest, region, price_data>>

\* Line 38: fetch_spot_price_data(&client) is called.
PriceFetchBegin ==
    /\ pc = "fetch_price"
    /\ calls' = Append(calls, "price_begin")
    /\ pc' = "price_pending"
    /\ UNCHANGED <<MainRest, region, advisor_data, price_data, result, error>>

\* Line 38: .await?: the fetch is over with an Err that main returns or with
\* a document, or it has panicked on its slice (main.rs, line 133).
PriceFetchEnd ==
    /\ pc = "price_pending"
    /\ \/ /\ calls' = Append(calls, "price_err")
          /\ error' = FetchError("price")
          /\ result' = "Err"
          /\ pc' = "exit"
          /\ UNCHANGED price_data
       \/ /\ calls' = Append(calls, "price_panic")
          /\ result' = "panic"
          /\ pc' = "panic"
          /\ UNCHANGED <<price_data, error>>
       \/ \E data \in FetchedPriceDocs :
             /\ calls' = Append(calls, "price_ok")
             /\ price_data' = data
             /\ pc' = "call_display"
             /\ UNCHANGED <<result, error>>
    /\ UNCHANGED <<MainRest, region, advisor_data>>

\* Lines 41-47: display_spot_data is called with &cli.region,
\* cli.instance_type.as_deref(), the two documents and cli.spot_price.
DisplayCall ==
    /\ pc = "call_display"
    /\ calls' = Append(calls, "display_begin")
    /\ pc' = "start"
    /\ UNCHANGED <<MainRest, region, advisor_data, price_data, result, error>>

\* Lines 47-49: `?` on what display_spot_data returned, then Ok(()).
MainReturn ==
    /\ pc = "done"
    /\ calls' = Append(calls, IF result = "Ok" THEN "display_ok" ELSE "display_err")
    /\ pc' = "exit"
    /\ UNCHANGED <<MainRest, region, advisor_data, price_data, result, error>>

MainNext ==
    \/ MainParse
    \/ AdvisorFetchBegin
    \/ AdvisorFetchEnd
    \/ PriceFetchBegin
    \/ PriceFetchEnd
    \/ DisplayCall
    \/ Start
    \/ Unwrap
    \/ AdvisorVisit
    \/ AdvisorEnd
    \/ PriceVisit
    \/ PriceEnd
    \/ FilterVisit
    \/ Sort
    \/ Emit
    \/ MainReturn

MainSpec == MainInit /\ [][MainNext]_vars

----------------------------------------------------------------------------
(* Properties.  The vocabulary below reads the two documents directly, so  *)
(* that a property compares what the engine built with what the documents *)
(* hold.                                                                   *)

\* The members of spot_advisor and the elements of config.regions.
AdvisorRegionMembers ==
    IF IsObject(Idx(advisor_data, "spot_advisor")) THEN Idx(advisor_data, "spot_advisor").v ELSE <<>>

PriceRegionElements ==
    IF IsArray(Idx(Idx(price_data, "config"), "regions"))
    THEN Idx(Idx(price_data, "config"), "regions").v ELSE <<>>

\* The pairs <<instance type, region>> the advisor document holds under
\* spot_advisor[region].Linux.
AdvisorPairs ==
    UNION {LET linux == Get(AdvisorRegionMembers[k].val, "Linux")
           IN  IF IsObject(linux)
               THEN {<<linux.v[j].k, AdvisorRegionMembers[k].k>> : j \in DOMAIN linux.v}
               ELSE {}
           : k \in DOMAIN AdvisorRegionMembers}

\* The pairs <<normalized identifier, region>> of the size entries of the
\* price document.
PricePairsOf(regions) ==
    UNION {UNION {{<<SimpleName(Idx(cat, "type").v \o <<Dot>> \o Idx(size, "size").v),
                     Idx(reg, "region").v>>
                   : size \in {Idx(cat, "sizes").v[j] : j \in DOMAIN Idx(cat, "sizes").v}}
                  : cat \in {Idx(reg, "instanceTypes").v[j] : j \in DOMAIN Idx(reg, "instanceTypes").v}}
           : reg \in {regions[j] : j \in DOMAIN regions}}

PricePairs == PricePairsOf(PriceRegionElements)

\* The pairs <<instance type, region>> that have a merged record.
MergedPairs ==
    UNION {{<<i, r>> : r \in DOMAIN instance_data[i]} : i \in DOMAIN instance_data}

\* Both loops of the merge are over.
MergeDone == pc \in {"filter", "rows", "done"}

\* The data rows of the table.
DataRows == IF table = <<>> THEN <<>> ELSE Tail(table)

\* C1: end to end, with an advisor document holding us-east-1 / Linux /
\* m5.large {r: 2, s: 30} and instance_types m5.large {cores: 2, ram_gb: 8},
\* and a price document holding us-east-1 / generalCurrentGen.m5 / large with
\* a linux column at "0.0456" and no mswin column, the call for us-east-1
\* with no filter and with prices ends with exactly one data row,
\* m5.large | us-east-1 | 10-15% | 8 | 2 | 0.0456 | N/A | 30%.
EndToEndCase ==
    /\ region = East
    /\ instance_type = None
    /\ show_spot_price
    /\ advisor_data \in {AdvisorDoc(1, 2, west) : west \in BOOLEAN}
    /\ price_data = PriceDoc(<<EastPrices(1)>>)

EndToEndRow == <<M5Large, East, "10-15%", "8", "2", "0.0456", "N/A", "30%">>

C1_EndToEnd ==
    EndToEndCase =>
        /\ pc # "panic"
        /\ pc = "done" => (result = "Ok" /\ DataRows = <<EndToEndRow>>)

C1_Witness == EndToEndCase /\ pc = "done" /\ Len(table) = 2

\* C2: once the merge is over, a merged record exists for (i, r) if and only
\* if the advisor document has i under spot_advisor[r].Linux or the price
\* document has in region r a size entry whose normalized identifier is i.
C2_RecordIffSourced == MergeDone => MergedPairs = AdvisorPairs \cup PricePairs

\* The advisor loops run to their end on a mapping: the visits of
\* lines 116-180 in order.
RECURSIVE SeedAll(_, _, _)
SeedAll(data, specs, events) ==
    IF events = <<>> THEN data
    ELSE SeedAll(SeedOne(data, specs, Head(events)), specs, Tail(events))

\* The price loops run to their end on a mapping: the visits of
\* lines 191-302 in order.
RECURSIVE FoldPrices(_, _)
FoldPrices(data, events) ==
    IF events = <<>> THEN data
    ELSE FoldPrices(PriceMerge(data, SizeLocals(Head(events))), Tail(events))

\* The mapping the advisor loops leave behind.
Seeded == SeedAll(EmptyMap, BuildSpecs(advisor_data), AdvisorEvents(AdvisorRegionMembers))

\* The rearrangements of a sequence.
Rearranged(seq) ==
    {[i \in DOMAIN seq |-> seq[p[i]]] : p \in Permutations(DOMAIN seq)}

\* The sequences whose i-th element is drawn from the i-th set.
RECURSIVE Choices(_)
Choices(sets) ==
    IF sets = <<>> THEN {<<>>}
    ELSE {<<h>> \o t : h \in Head(sets), t \in Choices(Tail(sets))}

\* The category with its sizes rearranged, the region with its categories
\* rearranged and each of them rearranged inside, the regions array likewise.
RearrangedCategory(cat) ==
    {Category(Idx(cat, "type").v, sizes) : sizes \in Rearranged(Idx(cat, "sizes").v)}

RearrangedRegion(reg) ==
    UNION {Choices([i \in DOMAIN cats |-> RearrangedCategory(cats[i])])
           : cats \in Rearranged(Idx(reg, "instanceTypes").v)}

RearrangedRegions(regions) ==
    UNION {Choices([i \in DOMAIN regs |->
                       {PriceRegion(Idx(regs[i], "region").v, cats)
                        : cats \in RearrangedRegion(regs[i])}])
           : regs \in Rearranged(regions)}

\* C3: the price fold is order-independent: every rearrangement of the
\* regions, of the categories inside a region and of the sizes inside a
\* category yields the same final mapping.
C3_FoldOrderIndependent ==
    MergeDone =>
        \A regions \in RearrangedRegions(PriceRegionElements) :
            FoldPrices(Seeded, PriceEvents(regions)) = instance_data

\* C4: merge commutativity: the price-merge step applied to all price
\* records before the advisor records are seeded yields the same final
\* mapping as the order the engine runs them in.
C4_MergeCommutes ==
    MergeDone =>
        SeedAll(FoldPrices(EmptyMap, PriceEvents(PriceRegionElements)),
                BuildSpecs(advisor_data), AdvisorEvents(AdvisorRegionMembers))
        = instance_data

\* The positions of the dots of s.
DotsOf(s) == {i \in 1..Len(s) : s[i] = Dot}

\* The text of s after its second-to-last dot (s has two dots or more): the
\* dot that has exactly one dot after it.
AfterSecondToLastDot(s) ==
    LET k == CHOOSE i \in DotsOf(s) : Cardinality({j \in DotsOf(s) : j > i}) = 1
    IN  [i \in 1..(Len(s) - k) |-> s[k + i]]

Normalized(s) == IF Cardinality(DotsOf(s)) >= 2 THEN AfterSecondToLastDot(s) ELSE s

\* A size entry has been visited by the price loop.
PriceVisited == cur # NoLocals

\* C5: identifier normalization: the normalized identifier of a composite
\* "{type}.{size}" with two dots or more is its text after the
\* second-to-last dot, and the composite itself otherwise; so
\* generalCurrentGen.m5.large gives m5.large, m5.large gives m5.large and
\* solo gives solo.
C5_Normalization ==
    /\ PriceVisited =>
        /\ cur.simple_name = Normalized(cur.full_name)
        /\ cur.simple_name \in DOMAIN instance_data
    /\ SimpleName(GeneralM5Large) = M5Large
    /\ SimpleName(M5Large) = M5Large
    /\ SimpleName(Solo) = Solo

C5_Witness ==
    /\ PriceVisited
    /\ Cardinality(DotsOf(cur.full_name)) >= 3
    /\ cur.simple_name # cur.full_name
    /\ Len(cur.simple_name) >= 2

\* The entries the advisor document holds under a region's "Linux" object.
AdvisorLinuxEntries ==
    UNION {LET linux == Get(AdvisorRegionMembers[k].val, "Linux")
           IN  IF IsObject(linux)
               THEN {[name |-> linux.v[j].k, region_name |-> AdvisorRegionMembers[k].k,
                      info |-> linux.v[j].val] : j \in DOMAIN linux.v}
               ELSE {}
           : k \in DOMAIN AdvisorRegionMembers}

\* The entries that carry an integer code r >= 0.
CodedEntries ==
    {e \in AdvisorLinuxEntries : IsObject(e.info) /\ IsU64(Get(e.info, "r"))}

\* The advisor loops are over.
SeedingDone == pc \in {"price", "filter", "rows", "done"}

\* Every coded entry has its record once seeding is over, and the record's
\* bucket label is the one the table gives for the entry's code.
LabelledBy(labels, last) ==
    \A e \in CodedEntries :
        /\ SeedingDone => <<e.name, e.region_name>> \in MergedPairs
        /\ <<e.name, e.region_name>> \in MergedPairs =>
              instance_data[e.name][e.region_name].interruption_rate
              = (IF Get(e.info, "r").v < Len(labels) THEN labels[Get(e.info, "r").v + 1] ELSE last)

IsPrefix(p, s) == Len(p) <= Len(s) /\ \A i \in 1..Len(p) : p[i] = s[i]

\* f is the first dot-separated segment of n; f is the second one.
IsFirstSegment(f, n) == DotsOf(f) = {} /\ IsPrefix(f \o <<Dot>>, n \o <<Dot>>)

IsSecondSegment(f, n) ==
    /\ DotsOf(f) = {}
    /\ \E k \in DotsOf(n) :
          /\ \A j \in DotsOf(n) : k <= j
          /\ IsPrefix(f \o <<Dot>>, [i \in 1..(Len(n) - k) |-> n[k + i]] \o <<Dot>>)

\* f occurs in n as a substring.
Occurs(f, n) == \E i \in 0..(Len(n) - Len(f)) : \A j \in 1..Len(f) : n[i + j] = f[j]

FilterAdmits(f, n) == IsFirstSegment(f, n) \/ IsSecondSegment(f, n) \/ Occurs(f, n)

\* The instance types that have a merged record in the requested region, and
\* those of them the filter admits.
InRegion == {n \in DOMAIN instance_data : region \in DOMAIN instance_data[n]}

Selected ==
    IF instance_type.t = "str" THEN {n \in InRegion : FilterAdmits(instance_type.v, n)}
    ELSE InRegion

RowNames == {DataRows[i][1] : i \in DOMAIN DataRows}

\* C7: with a filter f, a merged record of the requested region is emitted
\* if and only if f is the first segment of its instance type, or the second,
\* or a substring of it; for {m5.large, m5.xlarge, c5.large} and f = "m5" the
\* rows are exactly m5.large and m5.xlarge.
C7_FilterMatching ==
    (pc = "done" /\ instance_type.t = "str") =>
        /\ RowNames = {n \in InRegion : FilterAdmits(instance_type.v, n)}
        /\ (instance_type.v = FilterM5 /\ InRegion = {M5Large, M5Xlarge, C5Large})
              => RowNames = {M5Large, M5Xlarge}

C7_Witness ==
    /\ pc = "done"
    /\ instance_type = JStr(FilterInfix)
    /\ InRegion = {M5Large, M5Xlarge, C5Large}
    /\ RowNames = {M5Large, C5Large}

\* a is before b in byte-wise lexicographic order.
LexLess(a, b) ==
    \E k \in 1..Len(b) :
        /\ \A j \in 1..(k - 1) : j <= Len(a) /\ a[j] = b[j]
        /\ k = Len(a) + 1 \/ (k <= Len(a) /\ Byte(a[k]) < Byte(b[k]))

\* C8: whatever order the merged map is iterated in, the emitted rows are in
\* strictly ascending byte-wise order of instance type, and they are the rows
\* of the selected records: the documents, the region and the filter fix the
\* row sequence.
C8_OutputOrder ==
    pc = "done" =>
        /\ \A i, j \in DOMAIN DataRows : i < j => LexLess(DataRows[i][1], DataRows[j][1])
        /\ RowNames = Selected
        /\ \A i \in DOMAIN DataRows :
              DataRows[i] = RowOf(<<DataRows[i][1], instance_data[DataRows[i][1]][region]>>,
                                  region, show_spot_price)

C8_Witness ==
    /\ pc = "done"
    /\ Len(DataRows) = 3
    /\ DataRows[1][1] = C5Large /\ DataRows[2][1] = M5Large /\ DataRows[3][1] = M5Xlarge

\* Both documents have the shape the engine reads.
WellFormed ==
    /\ IsObject(Idx(advisor_data, "spot_advisor"))
    /\ \A k \in DOMAIN AdvisorRegionMembers : IsObject(AdvisorRegionMembers[k].val)
    /\ IsArray(Idx(Idx(price_data, "config"), "regions"))
    /\ \A reg \in {PriceRegionElements[k] : k \in DOMAIN PriceRegionElements} :
          /\ IsStr(Idx(reg, "region")) /\ IsArray(Idx(reg, "instanceTypes"))
          /\ \A cat \in {Idx(reg, "instanceTypes").v[k] : k \in DOMAIN Idx(reg, "instanceTypes").v} :
                /\ IsStr(Idx(cat, "type")) /\ IsArray(Idx(cat, "sizes"))
                /\ \A size \in {Idx(cat, "sizes").v[k] : k \in DOMAIN Idx(cat, "sizes").v} :
                      /\ IsStr(Idx(size, "size")) /\ IsArray(Idx(size, "valueColumns"))
                      /\ \A col \in {Idx(size, "valueColumns").v[k]
                                     : k \in DOMAIN Idx(size, "valueColumns").v} :
                            IsStr(Idx(col, "name"))

\* The requested region occurs in the advisor document or in the price one.
RegionKnown ==
    \/ \E k \in DOMAIN AdvisorRegionMembers : AdvisorRegionMembers[k].k = region
    \/ \E k \in DOMAIN PriceRegionElements :
          IsStr(Idx(PriceRegionElements[k], "region"))
          /\ Idx(PriceRegionElements[k], "region").v = region

\* C9: a region that occurs in neither document (both well-formed) gives
\* the header alone and Ok, whatever the filter and show_spot_price.
C9_UnknownRegion ==
    (WellFormed /\ ~RegionKnown) =>
        /\ pc # "panic"
        /\ result \in {"running", "Ok"}
        /\ Len(table) <= 1
        /\ pc = "done" => (result = "Ok" /\ table = <<Headers(show_spot_price)>>)

C9_Witness ==
    /\ WellFormed /\ ~RegionKnown
    /\ pc = "done"
    /\ instance_data # EmptyMap
    /\ instance_type # None

\* C10: an advisor document with no spot_advisor object, or a price document
\* with no config.regions array, does not make display_spot_data panic: the
\* call returns an Err to its caller.
C10_MalformedReturnsErr ==
    (~IsObject(Idx(advisor_data, "spot_advisor"))
     \/ ~IsArray(Idx(Idx(price_data, "config"), "regions"))) =>
        /\ pc # "panic"
        /\ result # "panic"

\* A step of the price loop that visits one size entry.
PriceVisitStep == pc = "price" /\ pc' = "price" /\ price_todo' = Tail(price_todo)

\* The record of the pair p in a mapping.
RecordOf(data, p) == data[p[1]][p[2]]

PairsOf(data) == UNION {{<<i, r>> : r \in DOMAIN data[i]} : i \in DOMAIN data}

\* C11: join frame: when a price entry's normalized identifier and region
\* match a record seeded from the advisor document, the merge step changes
\* nothing but that record's two price fields: its bucket, savings, memory
\* and cores stay, and so does every other record of the mapping.
C11_JoinFrame ==
    [][(PriceVisitStep /\ <<cur'.simple_name, cur'.region_name>> \in AdvisorPairs \cap MergedPairs) =>
          LET key == <<cur'.simple_name, cur'.region_name>>
          IN  /\ PairsOf(instance_data') = MergedPairs
              /\ DOMAIN instance_data' = DOMAIN instance_data
              /\ \A p \in MergedPairs \ {key} :
                    RecordOf(instance_data', p) = RecordOf(instance_data, p)
              /\ RecordOf(instance_data', key).interruption_rate
                    = RecordOf(instance_data, key).interruption_rate
              /\ RecordOf(instance_data', key).savings = RecordOf(instance_data, key).savings
              /\ RecordOf(instance_data', key).memory_gb = RecordOf(instance_data, key).memory_gb
              /\ RecordOf(instance_data', key).cores = RecordOf(instance_data, key).cores
              /\ RecordOf(instance_data', key).linux_spot_price = cur'.linux_spot_price
              /\ RecordOf(instance_data', key).windows_spot_price = cur'.windows_spot_price
      ]_vars

C11_Witness ==
    /\ pc = "price"
    /\ PriceVisited
    /\ <<cur.simple_name, cur.region_name>> \in AdvisorPairs \cap MergedPairs
    /\ Cardinality(MergedPairs) >= 2
    /\ RecordOf(instance_data, <<cur.simple_name, cur.region_name>>).linux_spot_price # NA
    /\ RecordOf(instance_data, <<cur.simple_name, cur.region_name>>).memory_gb # NA
    /\ RecordOf(instance_data, <<cur.simple_name, cur.region_name>>).interruption_rate # NA

\* The instance types the instance_types table of the advisor document lists.
ListedTypes ==
    IF IsObject(Get(advisor_data, "instance_types"))
    THEN {Get(advisor_data, "instance_types").v[k].k
          : k \in DOMAIN Get(advisor_data, "instance_types").v}
    ELSE {}

\* C12: field provenance: in the final mapping a record with no advisor
\* Linux entry for its pair has bucket, savings, memory and cores absent
\* (N/A), even when instance_types lists its instance type; a record with no
\* size entry of its region normalizing to its instance type has both price
\* fields absent (N/A).
C12_FieldProvenance ==
    MergeDone =>
        /\ \A p \in MergedPairs \ AdvisorPairs :
              /\ RecordOf(instance_data, p).interruption_rate = NA
              /\ RecordOf(instance_data, p).savings = NA
              /\ RecordOf(instance_data, p).memory_gb = NA
              /\ RecordOf(instance_data, p).cores = NA
        /\ \A p \in MergedPairs \ PricePairs :
              /\ RecordOf(instance_data, p).linux_spot_price = NA
              /\ RecordOf(instance_data, p).windows_spot_price = NA

C12_Witness ==
    /\ MergeDone
    /\ \E p \in MergedPairs \ AdvisorPairs :
          p[1] \in ListedTypes /\ RecordOf(instance_data, p).linux_spot_price # NA
    /\ \E p \in MergedPairs \ PricePairs :
          RecordOf(instance_data, p).interruption_rate # NA

----------------------------------------------------------------------------
(* The call as a function of its arguments.                                *)

\* A set as a sequence, in some order.
RECURSIVE SeqOf(_)
SeqOf(S) ==
    IF S = {} THEN <<>>
    ELSE LET x == CHOOSE x \in S : TRUE IN <<x>> \o SeqOf(S \ {x})

\* The price visits that panic.
PricePanics(events) ==
    \E i \in DOMAIN events : events[i].kind = "panic" \/ SizePanics(events[i].data)

\* What display_spot_data does with its arguments: the result and the data
\* rows of the table, composed of the steps of the state machine.  The names
\* of a HashMap are distinct, so the sort leaves one order whatever order the
\* filter loop took.
Outcome(adv, price, reg, filter, show) ==
    IF \/ ~IsObject(Idx(adv, "spot_advisor"))
       \/ ~IsArray(Idx(Idx(price, "config"), "regions"))
    THEN [result |-> "panic", rows |-> <<>>]
    ELSE LET entries == AdvisorEvents(Idx(adv, "spot_advisor").v)
             sizes == PriceEvents(Idx(Idx(price, "config"), "regions").v)
         IN  IF (\E i \in DOMAIN entries : entries[i].kind = "panic") \/ PricePanics(sizes)
             THEN [result |-> "panic", rows |-> <<>>]
             ELSE LET data == FoldPrices(SeedAll(EmptyMap, BuildSpecs(adv), entries), sizes)
                      kept == {n \in DOMAIN data :
                                 /\ filter.t = "str" => Matches(n, filter.v)
                                 /\ reg \in DOMAIN data[n]}
                      sorted == SortByName(SeqOf({<<n, data[n][reg]>> : n \in kept}))
                  IN  [result |-> "Ok",
                       rows |-> [i \in DOMAIN sorted |-> RowOf(sorted[i], reg, show)]]

\* The call is over.
Returned == pc \in {"done", "panic"}

\* What the call did.
Observed == [result |-> result, rows |-> DataRows]

\* The members of an object without the member of one key, and with that
\* member set.
Without(members, key) ==
    LET keep == {i \in DOMAIN members : members[i].k # key}
        RECURSIVE Pick(_)
        Pick(i) == IF i > Len(members) THEN <<>>
                   ELSE (IF i \in keep THEN <<members[i]>> ELSE <<>>) \o Pick(i + 1)
    IN  Pick(1)

With(members, key, value) == Without(members, key) \o <<KV(key, value)>>

\* The advisor document with other regions under spot_advisor.
WithRegions(adv, members) ==
    JObj(With(adv.v, "spot_advisor", JObj(members)))

\* The "Windows" branches tried: none, null, empty, and entries for instance
\* types the documents hold and for one they do not.
WindowsBranches ==
    {None, Null, JObj(<<>>), WindowsBranch,
     JObj(<<KV(C5Large, AdvisorEntry(0, 5)), KV(M5Large, AdvisorEntry(1, 15)),
            KV(Solo, AdvisorEntry(2, 25))>>)}

\* The advisor documents that differ from advisor_data in the "Windows"
\* branch of one region at most.
WindowsVariants ==
    {advisor_data} \cup
    {WithRegions(advisor_data,
        [j \in DOMAIN AdvisorRegionMembers |->
            IF j = k
            THEN KV(AdvisorRegionMembers[j].k,
                    JObj(IF w = None THEN Without(AdvisorRegionMembers[j].val.v, "Windows")
                         ELSE With(AdvisorRegionMembers[j].val.v, "Windows", w)))
            ELSE AdvisorRegionMembers[j]])
     : k \in {j \in DOMAIN AdvisorRegionMembers : IsObject(AdvisorRegionMembers[j].val)},
       w \in WindowsBranches}

\* C13: Windows non-interference: when the call is over, the call on any
\* advisor document that differs only in the contents or the presence of a
\* region's "Windows" branch, with the same price document, region, filter
\* and price flag, has the same result and the same sequence of rows.
C13_WindowsNonInterference ==
    Returned =>
        \A adv \in WindowsVariants :
            Outcome(adv, price_data, region, instance_type, show_spot_price) = Observed

C13_Witness ==
    /\ pc = "done"
    /\ Len(DataRows) >= 2
    /\ \E k \in DOMAIN AdvisorRegionMembers :
          /\ AdvisorRegionMembers[k].k = region
          /\ Get(AdvisorRegionMembers[k].val, "Windows") = WindowsBranch
    /\ Cardinality(WindowsVariants) >= 5

\* The same call with the price flag flipped.
Flipped == Outcome(advisor_data, price_data, region, instance_type, ~show_spot_price)

\* A row of six cells is a row of eight without its sixth and seventh.
SameButPrices(six, eight) ==
    /\ Len(six) = 6
    /\ Len(eight) = 8
    /\ six = SubSeq(eight, 1, 5) \o <<eight[8]>>

\* C14: the price flag affects only columns: when the call is over, the call
\* with the flag flipped has the same result and as many rows; row by row the
\* instance type, region, bucket, memory, cores and savings cells are the
\* same; a row has 6 cells without the flag and 8 with it, the two more being
\* the record's linux price then its windows price, between cores and savings.
C14_PriceFlagOnlyColumns ==
    Returned =>
        /\ Flipped.result = result
        /\ Len(Flipped.rows) = Len(DataRows)
        /\ \A i \in DOMAIN DataRows :
              IF show_spot_price
              THEN SameButPrices(Flipped.rows[i], DataRows[i])
              ELSE SameButPrices(DataRows[i], Flipped.rows[i])
        /\ pc = "done" =>
              \A i \in DOMAIN DataRows :
                 LET row == DataRows[i]
                     info == filtered_data[i][2]
                 IN  /\ SubSeq(row, 1, 5) = <<filtered_data[i][1], region,
                                              info.interruption_rate, info.memory_gb, info.cores>>
                     /\ row[Len(row)] = info.savings
                     /\ show_spot_price =>
                           row[6] = info.linux_spot_price /\ row[7] = info.windows_spot_price

C14_Witness ==
    /\ pc = "done"
    /\ show_spot_price
    /\ Len(DataRows) >= 2
    /\ \E i \in DOMAIN DataRows :
          /\ DataRows[i][6] # NA
          /\ DataRows[i][7] # NA
          /\ DataRows[i][6] # DataRows[i][7]
          /\ DataRows[i][8] # NA

----------------------------------------------------------------------------
(* fetch_spot_price_data: properties.                                      *)

\* The body of test_extract_json_from_callback: callback({"key": "value"})
TestText ==
    <<"c", "a", "l", "l", "b", "a", "c", "k", "(", "{", Quote, "k", "e", "y", Quote, ":", " ",
      Quote, "v", "a", "l", "u", "e", Quote, "}", ")">>

\* The position of the first '{' after "callback(" and of the last '}'.
FirstBraceAfterPrefix ==
    LET after == FindStr(text, CallbackPrefix) + Len(CallbackPrefix)
        braces == {i \in after..Len(text) : text[i] = "{"}
    IN  CHOOSE i \in braces : \A j \in braces : i <= j

LastBrace == RFindChar(text, "}")

\* The slice has been taken.
Sliced == pc \in {"strip", "parse", "fetched"}

\* C15: callback unwrapping: for every body callback(J) with J the text of
\* an object, the extraction never panics; the extracted text is the body
\* from the first '{' after "callback(" through the last '}', which is J,
\* also after the removal of a trailing ')'; and parsing it gives the object.
C15_CallbackUnwrapping ==
    \A j \in DOMAIN FetchObjects, sp \in Spacings :
        text = Wrap(1, Render(FetchObjects[j], sp)) =>
            /\ pc # "panic"
            /\ Sliced => /\ fetch.json_str = SubSeq(text, FirstBraceAfterPrefix, LastBrace)
                         /\ fetch.json_str = Render(FetchObjects[j], sp)
            /\ pc = "fetched" => /\ result = "Ok"
                                 /\ price_data = FetchObjects[j]

C15_Witness ==
    /\ pc = "fetched"
    /\ text = TestText
    /\ text = Wrap(1, Render(FetchObjects[1], <<" ">>))
    /\ price_data = JObj(<<KV(<<"k", "e", "y">>, JStr(<<"v", "a", "l", "u", "e">>))>>)

----------------------------------------------------------------------------
(* The command line: properties.                                           *)

\* The codes of the list, as a set.
RegionCodes == {VALID_AWS_REGIONS[i] : i \in DOMAIN VALID_AWS_REGIONS}

\* C16: region validation: the list holds 29 distinct codes; validate_region
\* of a string is Ok exactly when the string is one of them, and for every
\* other string, the empty one included, it is an InvalidRegionError whose
\* region is the string and whose message holds "Invalid AWS region '<r>'";
\* Cli::validate is Ok exactly when validate_region of its region is, and
\* the default region is us-east-1 and validates.
C16_RegionValidation ==
    /\ Len(VALID_AWS_REGIONS) = 29
    /\ Cardinality(RegionCodes) = 29
    /\ \A r \in RegionArguments :
          /\ ValidateRegion(r).ok <=> r \in RegionCodes
          /\ ~ValidateRegion(r).ok =>
                /\ ValidateRegion(r).err.kind = "InvalidRegionError"
                /\ ValidateRegion(r).err.region = r
                /\ ValidateRegion(r).err.message =
                      "Invalid AWS region '" \o r \o "'"
                      \o ". Please use a valid AWS region code (e.g., us-east-1, eu-west-1, ap-northeast-1)"
    /\ pc = "validated" =>
          /\ result \in {"Ok", "Err"}
          /\ result = "Ok" <=> region \in RegionCodes
          /\ result = "Ok" <=> ValidateRegion(region).ok
          /\ result = "Err" => error = ValidateRegion(region).err /\ error.region = region
          /\ ~args.given => region = "us-east-1" /\ result = "Ok"
          /\ args.given => region = args.region

C16_Witness ==
    /\ pc = "validated"
    /\ args.given
    /\ region = "invalid-region"
    /\ result = "Err"
    /\ error.region = "invalid-region"
    /\ error.message = "Invalid AWS region 'invalid-region'. Please use a valid AWS region code (e.g., us-east-1, eu-west-1, ap-northeast-1)"

----------------------------------------------------------------------------
(* display_spot_data: properties of the price fold and of the selection.   *)

\* C17: no overwrite during the price fold: a step of the price loop never
\* changes a linux or windows price field that is present (not N/A) in a
\* merged record, neither to N/A nor to another value.
C17_NoOverwrite ==
    [][pc = "price" =>
          \A p \in MergedPairs \cap PairsOf(instance_data') :
              /\ RecordOf(instance_data, p).linux_spot_price # NA =>
                    RecordOf(instance_data', p).linux_spot_price
                        = RecordOf(instance_data, p).linux_spot_price
              /\ RecordOf(instance_data, p).windows_spot_price # NA =>
                    RecordOf(instance_data', p).windows_spot_price
                        = RecordOf(instance_data, p).windows_spot_price
      ]_vars

\* The advisor document with the requested region alone under spot_advisor,
\* and the price document with the elements of the requested region alone.
ProjectedAdvisor ==
    LET Requested(m) == m.k = region
    IN  WithRegions(advisor_data, SelectSeq(AdvisorRegionMembers, Requested))

ProjectedPrice ==
    LET Requested(r) == IsStr(Idx(r, "region")) /\ Idx(r, "region").v = region
        config == Idx(price_data, "config")
    IN  JObj(With(price_data.v, "config",
                  JObj(With(config.v, "regions",
                            JArr(SelectSeq(PriceRegionElements, Requested))))))

\* C18: region selection is a pure projection: the rows of a call that
\* returned Ok are those of the call on the documents without the advisor
\* and price entries of every other region.
C18_PureProjection ==
    pc = "done" =>
        Outcome(ProjectedAdvisor, ProjectedPrice, region, instance_type, show_spot_price)
            = Observed

----------------------------------------------------------------------------
(* display_spot_data: properties of the documents of the partial family.   *)

\* The advisor loops stopped in a panic.
AdvisorLoopPanicked == pc = "panic" /\ advisor_todo # <<>>

\* C19: malformed advisor entries are skipped, not fatal: the advisor loops
\* never panic, whether a region's value or an entry under "Linux" is an
\* object or not; while they run an entry that is no object has no record;
\* and once they are over every entry that is an object has its record.
C19_MalformedAdvisorSkipped ==
    /\ ~AdvisorLoopPanicked
    /\ pc = "advisor" =>
          \A e \in AdvisorLinuxEntries :
              ~IsObject(e.info) => <<e.name, e.region_name>> \notin MergedPairs
    /\ SeedingDone =>
          \A e \in AdvisorLinuxEntries :
              IsObject(e.info) => <<e.name, e.region_name>> \in MergedPairs

\* The price loops stopped in a panic.
PriceLoopPanicked ==
    /\ pc = "panic"
    /\ advisor_todo = <<>>
    /\ IsObject(Idx(advisor_data, "spot_advisor"))
    /\ IsArray(Idx(Idx(price_data, "config"), "regions"))

\* C20: partially malformed price entries are recovered locally: the price
\* loops never panic, whether a region lacks its region string or its
\* instanceTypes array, a category its type or its sizes, a size its size
\* or its valueColumns, or a value column its name.
C20_PartialPriceRecovered == ~PriceLoopPanicked

----------------------------------------------------------------------------
(* display_spot_data: properties of the documents of the fields family.    *)

\* The regions of a price document.
RegionsOf(price) == Idx(Idx(price, "config"), "regions").v

\* The mapping the two loops leave behind on a price document, with the
\* advisor document of the state.
MergedOn(price) == FoldPrices(Seeded, PriceEvents(RegionsOf(price)))

\* The value columns without those named "linux".
WithoutLinux(columns) ==
    LET Other(c) == Idx(c, "name").v # "linux"
    IN  SelectSeq(columns, Other)

\* A column named "linux" whose prices.USD is the literal string "N/A".
LiteralNA(c) == Idx(c, "name").v = "linux" /\ Get(Get(c, "prices"), "USD") = JStr("N/A")

\* C21: absent is distinguishable from the literal string N/A: the merged
\* records of a price document whose only linux column carries the literal
\* string "N/A" as its prices.USD differ from those of the same document
\* with no linux column at all.
C21_AbsentDistinguishable ==
    \A columns \in ColumnSeqs(MaxColumns) :
        (/\ MergeDone
         /\ price_data = ColumnsDoc(columns)
         /\ \E i \in DOMAIN columns : LiteralNA(columns[i])
         /\ \A i \in DOMAIN columns : Idx(columns[i], "name").v = "linux" => LiteralNA(columns[i]))
        => instance_data # MergedOn(ColumnsDoc(WithoutLinux(columns)))

\* The advisor loops are over and the price loops have not begun.
SeedingOver == pc = "advisor" /\ advisor_todo = <<>>

\* The pairs of the entries under a region's "Linux" that are objects.
ObjectPairs == {<<e.name, e.region_name>> : e \in {x \in AdvisorLinuxEntries : IsObject(x.info)}}

\* The regions of spot_advisor whose object has no "Linux" key.
RegionsWithoutLinux ==
    {AdvisorRegionMembers[k].k
     : k \in {j \in DOMAIN AdvisorRegionMembers :
                 Get(AdvisorRegionMembers[j].val, "Linux").t = "none"}}

\* C22 as stated: after advisor seeding a record exists for (i, r) exactly
\* when i is an entry under spot_advisor[r]."Linux", whatever the entry is.
C22_RecordPerEntry == SeedingOver => MergedPairs = AdvisorPairs

\* C22, amended: after advisor seeding, and for every region of
\* spot_advisor, a record exists for (i, r) exactly when i is an entry under
\* spot_advisor[r]."Linux" whose value is an object; a region whose object
\* has no "Linux" key contributes no records.
C22_RecordPerObjectEntry ==
    SeedingOver =>
        /\ MergedPairs = ObjectPairs
        /\ \A p \in MergedPairs : p[2] \notin RegionsWithoutLinux

C22_Witness ==
    /\ SeedingOver
    /\ RegionsWithoutLinux # {}
    /\ \E p \in MergedPairs : p[2] # region
    /\ \E p \in MergedPairs : p[2] = region

\* The entries under a region's "Linux" that are objects.
ObjectEntries == {e \in AdvisorLinuxEntries : IsObject(e.info)}

\* C23: defaults for r and s: once seeding is over every advisor Linux entry
\* that is an object has its record; a missing or non-numeric r gives the
\* bucket of code 0 and a missing or non-numeric s gives savings 0%, each
\* whatever the other field is.
C23_DefaultsForRAndS ==
    SeedingDone =>
        \A e \in ObjectEntries :
            /\ <<e.name, e.region_name>> \in MergedPairs
            /\ ~IsF64(Get(e.info, "r")) =>
                  instance_data[e.name][e.region_name].interruption_rate = "< 5%"
            /\ ~IsF64(Get(e.info, "s")) =>
                  instance_data[e.name][e.region_name].savings = "0%"

C23_Witness ==
    /\ pc = "done"
    /\ advisor_data = EntryDoc(JStr("high"), JInt(2))
    /\ Len(DataRows) = 1
    /\ DataRows[1][3] = "< 5%"
    /\ DataRows[1][8] = "2%"

\* The entry of an instance type in instance_types.
TypeEntry(n) == Get(Get(advisor_data, "instance_types"), n)

\* instance_specs is built.
SpecsBuilt == pc # "start"

\* C24 as stated: every instance type listed in instance_types is indexed;
\* its memory is present exactly when ram_gb is numeric and its cores
\* exactly when cores is numeric.
C24_SpecsWhenNumeric ==
    SpecsBuilt =>
        /\ DOMAIN instance_specs = ListedTypes
        /\ \A n \in DOMAIN instance_specs :
              /\ instance_specs[n][1] # NA <=> IsF64(Get(TypeEntry(n), "ram_gb"))
              /\ instance_specs[n][2] # NA <=> IsF64(Get(TypeEntry(n), "cores"))

\* C24, amended: every instance type listed in instance_types whose entry is
\* an object is indexed, and no other; its memory is present exactly when
\* ram_gb is numeric and its cores exactly when cores is an unsigned integer,
\* each whatever the other field is; building the index never fails.
C24_SpecsPerField ==
    /\ pc = "unwrap" => result = "running"
    /\ SpecsBuilt =>
          /\ DOMAIN instance_specs = {n \in ListedTypes : IsObject(TypeEntry(n))}
          /\ \A n \in DOMAIN instance_specs :
                /\ instance_specs[n][1] # NA <=> IsF64(Get(TypeEntry(n), "ram_gb"))
                /\ instance_specs[n][2] # NA <=> IsU64(Get(TypeEntry(n), "cores"))

C24_Witness ==
    /\ pc = "done"
    /\ advisor_data = TypesDoc(Members(<<KV("cores", JInt(2)), KV("ram_gb", JStr("high"))>>))
    /\ instance_specs[M5Large] = <<NA, "2">>
    /\ DataRows[1][4] = NA
    /\ DataRows[1][5] = "2"


\* Some value column has that exact name and a string as its prices.USD.
Carries(columns, name) ==
    \E i \in DOMAIN columns :
        /\ Idx(columns[i], "name").v = name
        /\ IsStr(Get(Get(columns[i], "prices"), "USD"))

\* C25: price column selection: for every size entry, linux_price is present
\* exactly when some value column is named exactly "linux" and carries a
\* prices.USD string, and windows_price exactly when some value column is
\* named exactly "mswin" and carries one; a column named "Linux" or "linux2"
\* sets neither field.
C25_PriceColumnSelection ==
    \A columns \in ColumnSeqs(MaxColumns) :
        (MergeDone /\ price_data = ColumnsDoc(columns)) =>
            LET info == instance_data[M5Large][East]
            IN  /\ info.linux_spot_price # NA <=> Carries(columns, "linux")
                /\ info.windows_spot_price # NA <=> Carries(columns, "mswin")


\* C27: callback extraction never aborts: for every response text, text with
\* no '}', text with neither "callback(" nor '{', and text whose "callback("
\* comes after its last '}' included, the extraction of fetch_spot_price_data
\* ends in a parsed value or in a returned Err, never in the panic of an
\* out-of-range slice.
C27_ExtractionNeverAborts == pc # "panic" /\ result # "panic"


\* The instance types with a record in the requested region.
InRegionNames == {n \in DOMAIN instance_data : region \in DOMAIN instance_data[n]}

\* C28: the three-way filter predicate is plain substring containment: for
\* every merged instance type n and filter f, (first segment of n = f, or
\* second segment of n = f, or n contains f) holds exactly when n contains f;
\* so the empty filter string selects every record of the region, as no
\* filter does.
C28_FilterIsContainment ==
    /\ (MergeDone /\ instance_type.t = "str") =>
          \A n \in DOMAIN instance_data :
              Matches(n, instance_type.v) <=> Contains(n, instance_type.v)
    /\ (pc = "done" /\ result = "Ok" /\ instance_type = JStr(<<>>)) =>
          /\ RowNames = InRegionNames
          /\ Observed = Outcome(advisor_data, price_data, region, None, show_spot_price)

C28_Witness ==
    /\ pc = "done"
    /\ result = "Ok"
    /\ instance_type = JStr(<<>>)
    /\ Cardinality(RowNames) = 2
    /\ \E n \in RowNames : Split(n)[1] # <<>> /\ Len(Split(n)) = 2 /\ Split(n)[2] # <<>>
    /\ \E n \in RowNames : Split(n)[1] = <<>>


\* The calls of main in the order its code makes them, each ended before
\* the next begins.
CallOrder ==
    {<<>>,
     <<"advisor_begin">>,
     <<"advisor_begin", "advisor_err">>,
     <<"advisor_begin", "advisor_ok">>,
     <<"advisor_begin", "advisor_ok", "price_begin">>,
     <<"advisor_begin", "advisor_ok", "price_begin", "price_err">>,
     <<"advisor_begin", "advisor_ok", "price_begin", "price_panic">>,
     <<"advisor_begin", "advisor_ok", "price_begin", "price_ok">>,
     <<"advisor_begin", "advisor_ok", "price_begin", "price_ok", "display_begin">>,
     <<"advisor_begin", "advisor_ok", "price_begin", "price_ok", "display_begin", "display_ok">>,
     <<"advisor_begin", "advisor_ok", "price_begin", "price_ok", "display_begin", "display_err">>}

Called(call) == \E i \in DOMAIN calls : calls[i] = call

\* main has returned.
Exited == pc = "exit"

\* C26: sequencing in main: the advisor fetch is over before the price fetch
\* begins and the price fetch is over before display_spot_data begins; when
\* the advisor fetch fails the price fetch never begins; when either fetch
\* fails display_spot_data is never called and main returns that error.
C26_FetchThenDisplay ==
    /\ calls \in CallOrder
    /\ Called("advisor_err") =>
          /\ ~Called("price_begin") /\ ~Called("display_begin")
          /\ Exited /\ result = "Err" /\ error = FetchError("advisor")
    /\ Called("price_err") =>
          /\ ~Called("display_begin")
          /\ Exited /\ result = "Err" /\ error = FetchError("price")
    /\ Called("display_begin") =>
          /\ Called("advisor_ok") /\ Called("price_ok")
          /\ advisor_data \in FetchedAdvisorDocs /\ price_data \in FetchedPriceDocs
    /\ pc \in {"start", "unwrap", "advisor", "price", "filter", "rows", "done"} =>
          calls[Len(calls)] = "display_begin"

C26_Witness ==
    /\ Exited
    /\ Called("advisor_ok")
    /\ Called("price_err")
    /\ result = "Err"
    /\ table = <<>>

\* The region of the command line.
GivenRegion == IF args.given THEN args.region ELSE MainDefaultRegion

\* C29: main validates no region: for every region string of the command
\* line, one outside VALID_AWS_REGIONS included, main goes through both
\* fetches and calls display_spot_data with that very string; no path of
\* main produces InvalidRegionError.
C29_NoRegionValidation ==
    /\ error.kind # "InvalidRegionError"
    /\ pc # "main" => region = GivenRegion
    /\ Exited => Called("advisor_begin")
    /\ (Exited /\ ~Called("price_begin")) => Called("advisor_err")
    /\ (Exited /\ ~Called("display_begin")) => (Called("advisor_err") \/ Called("price_err"))

C29_Witness ==
    /\ Exited
    /\ ~ValidateRegion(GivenRegion).ok
    /\ Called("display_ok")
    /\ region = GivenRegion
    /\ result = "Ok"

====
